---- MODULE Spec2Model ----
(***************************************************************************)
(* Model of the move-selection engine of the chain-reaction game           *)
(* (client/src/lib/aiPlayer.ts and its simpler tuning, unnamed/part_000):  *)
(* the move validator, the personality store and the move selector; and of *)
(* the click handler of the GameBoard component with its fallback timers.  *)
(*                                                                         *)
(* JavaScript arrays are functions over 0..n-1 (the grid, indexed by       *)
(* arithmetic) or sequences (lists that are only iterated).  An optional   *)
(* argument is a record [defined, items]; a value returned by a function   *)
(* that may throw is a record [threw, val].                                *)
(***************************************************************************)
EXTENDS Integers, Sequences, FiniteSets

VARIABLES
    variant,        \* which tuning of the engine is loaded: "rival" or "simple"
    grid,           \* GridCell[][] handed in by the host
    isBaseMode,     \* the rule mode: TRUE = HQ (base) mode, FALSE = classic
    hqs,            \* the optional HQCell[] argument
    powerUps,       \* the optional PowerUpCell[] argument
    personalities,  \* PersonalityBasedAI.personalities (Map<PLAYER, AIPersonality>)
    last,           \* the last call made by the host and what it returned
    isAnimating,    \* the isAnimating prop of GameBoard, set through setIsAnimating
    lastClickedCell,\* the lastClickedCell state of GameBoard
    timers,         \* the pending setTimeout callbacks of handleCellClick: their due times
    now             \* the time of the event loop, in milliseconds

vars == <<variant, grid, isBaseMode, hqs, powerUps, personalities, last,
          isAnimating, lastClickedCell, timers, now>>

\* the board component; no function of the engine touches it
board == <<isAnimating, lastClickedCell, timers, now>>

(***************************************************************************)
(* Bounds of the model.                                                    *)
(***************************************************************************)
MaxCols == 3      \* the width of the board
MaxHQs == 2       \* the length of an HQ list
MaxDraw == 2      \* Math.random() takes the values k / (MaxDraw + 1), k \in 0..MaxDraw
MaxScoreStep == 1 \* evaluateMove takes the values 1500 * k, k \in 0..MaxScoreStep
MaxPowerUps == 1  \* the length of a well-formed power-up list
MaxMore == 2      \* the atoms added to a cell when two grids are compared
Step == 200       \* the most milliseconds that pass in one step of the clock
MaxTime == 1400   \* the time at which the clock of the model stops
MaxPending == 3   \* the most fallback timers pending at once

(***************************************************************************)
(* Values.                                                                 *)
(***************************************************************************)
Null == "null"
AllPlayers == {"RED", "BLUE", "ORANGE", "BLACK"}
\* the players that sit at the board in the bounded model
BoardPlayers == {"RED", "BLUE"}

Length(a) == Cardinality(DOMAIN a)
Abs(x) == IF x < 0 THEN -x ELSE x
Max(a, b) == IF a >= b THEN a ELSE b
Min(a, b) == IF a <= b THEN a ELSE b

Ret(v) == [threw |-> FALSE, val |-> v]
Throw == [threw |-> TRUE, val |-> FALSE]

Undefined == [defined |-> FALSE, items |-> << >>]
Some(s) == [defined |-> TRUE, items |-> s]

OwnedCells(atomCounts) == [player : BoardPlayers, atoms : atomCounts]

\* a well-formed HQCell; a malformed list holds an entry with nul set instead
HQCell(r, c, p, h) == [nul |-> FALSE, row |-> r, col |-> c, player |-> p, health |-> h]

\* a well-formed PowerUpCell
PowerUpCell(r, c, t) == [nul |-> FALSE, row |-> r, col |-> c, type |-> t]

(***************************************************************************)
(* The inputs of the bounded model: rectangular grids of R rows and C      *)
(* columns in which at most two cells are owned, and HQ lists with at most *)
(* MaxHQs entries, each player and each cell at most once.                 *)
(***************************************************************************)
Coords(R, C) == (0..(R - 1)) \X (0..(C - 1))

MkGrid(R, C, S, f) ==
    [r \in 0..(R - 1) |-> [c \in 0..(C - 1) |->
        IF <<r, c>> \in S THEN f[<<r, c>>] ELSE [player |-> Null, atoms |-> 0]]]

Grids(R, C, atomCounts) ==
    UNION { { MkGrid(R, C, S, f) : f \in [S -> OwnedCells(atomCounts)] } :
            S \in { T \in SUBSET Coords(R, C) : Cardinality(T) <= 2 } }

\* the two-row board of the bounded model, and the grid with no rows
Dims == {<<2, MaxCols>>, <<0, 0>>}

RowsOf(g) == Length(g)
ColsOf(g) == IF Length(g) = 0 THEN 0 ELSE Length(g[0])

HQLists(R, C) ==
    { s \in UNION { [1..n -> { HQCell(x[1], x[2], p, h) :
                                 x \in Coords(R, C), p \in BoardPlayers, h \in {3} }] :
                    n \in 0..MaxHQs } :
        \A i, j \in DOMAIN s :
            i # j => /\ s[i].player # s[j].player
                     /\ <<s[i].row, s[i].col>> # <<s[j].row, s[j].col>> }

WellFormed(opt) == \A i \in DOMAIN opt.items : ~opt.items[i].nul

(***************************************************************************)
(* Array.prototype.some / find with a callback that reads a property of    *)
(* each element: the elements are visited in order, and reading a property *)
(* of a null element throws before any later element is looked at.         *)
(* FirstHit(s, matches): the index at which the scan of s ends, given the   *)
(* indices of the elements the callback accepts; 0 when it ends nowhere.   *)
(***************************************************************************)
FirstHit(s, matches) ==
    LET hits == { i \in DOMAIN s : s[i].nul } \cup matches
    IN  IF hits = {} THEN 0 ELSE CHOOSE i \in hits : \A j \in hits : i <= j

(***************************************************************************)
(* gameUtils.isAdjacentTo: the 8-neighbour adjacency test.                 *)
(***************************************************************************)
isAdjacentTo(row, col, r, c) ==
    /\ Abs(row - r) <= 1
    /\ Abs(col - c) <= 1
    /\ <<row, col>> # <<r, c>>

(***************************************************************************)
(* isValidMoveForAI, in the order of its tests.                            *)
(***************************************************************************)
\* a test that looks at the first HQ of the list only
hqScanFirstOnly(hq, row, col) ==
    IF /\ hq.items # << >>
       /\ (hq.items[1].nul \/ (hq.items[1].row = row /\ hq.items[1].col = col))
    THEN 1 ELSE 0

\* hqs.some(hq => hq.row === row && hq.col === col): the index of the entry
\* that ends the scan, 0 when no entry does
hqScan(hq, row, col) ==
    FirstHit(hq.items,
             { i \in DOMAIN hq.items : hq.items[i].row = row /\ hq.items[i].col = col })

\* a search that takes the first HQ of the list for the player's
playerHQScanFirst(hq, currentPlayer) ==
    IF hq.items = << >> THEN 0 ELSE 1

\* hqs.find(hq => hq.player === currentPlayer), likewise
playerHQScan(hq, currentPlayer) ==
    FirstHit(hq.items, { i \in DOMAIN hq.items : hq.items[i].player = currentPlayer })

\* a classic rule that lets a player place only on cells that hold atoms of theirs
classicRuleAtoms(cell, currentPlayer) ==
    cell.player = Null \/ (cell.player = currentPlayer /\ cell.atoms > 0)

\* a classic rule that also lets a player place on any cell that holds atoms
classicRuleOpen(cell, currentPlayer) ==
    cell.player = Null \/ cell.player = currentPlayer \/ cell.atoms > 0

classicRule(cell, currentPlayer) ==
    cell.player = Null \/ cell.player = currentPlayer

\* a first-move rule that takes the 3x3 area of the HQ for its row and column
firstMoveRuleNearHQ(row, col, playerHQ) ==
    Abs(row - playerHQ.row) <= 1 /\ Abs(col - playerHQ.col) <= 1

firstMoveRule(row, col, playerHQ) ==
    row = playerHQ.row \/ col = playerHQ.col

hasAdjacentDot(g, row, col, currentPlayer) ==
    \E r \in DOMAIN g : \E c \in DOMAIN g[r] :
        /\ g[r][c].player = currentPlayer
        /\ g[r][c].atoms > 0
        /\ isAdjacentTo(row, col, r, c)

\* a later-move rule that forgets the 3x3 area of the HQ
laterMoveRuleNoHQ(g, row, col, currentPlayer, playerHQ) ==
    hasAdjacentDot(g, row, col, currentPlayer)

laterMoveRule(g, row, col, currentPlayer, playerHQ) ==
    LET nearHQ == Abs(row - playerHQ.row) <= 1 /\ Abs(col - playerHQ.col) <= 1
    IN  nearHQ \/ hasAdjacentDot(g, row, col, currentPlayer)

isValidMoveForAI(g, row, col, currentPlayer, baseMode, hq) ==
    IF row < 0 \/ row >= Length(g) \/ col < 0 \/ col >= Length(g[0])
    THEN Ret(FALSE)
    ELSE
    LET cell == g[row][col]
        hqHit == IF baseMode /\ hq.defined THEN hqScan(hq, row, col) ELSE 0
    IN
    IF hqHit # 0
    THEN (IF hq.items[hqHit].nul THEN Throw ELSE Ret(FALSE))
    ELSE IF ~baseMode
    THEN Ret(classicRule(cell, currentPlayer))
    ELSE IF cell.player # Null /\ cell.player # currentPlayer
    THEN Ret(FALSE)
    ELSE IF ~hq.defined
    THEN Ret(TRUE)
    ELSE
    LET found == playerHQScan(hq, currentPlayer)
    IN
    IF found = 0
    THEN Ret(TRUE)
    ELSE IF hq.items[found].nul
    THEN Throw
    ELSE IF ~\E r \in DOMAIN g : \E c \in DOMAIN g[r] :
                 g[r][c].player = currentPlayer /\ g[r][c].atoms > 0
    THEN Ret(firstMoveRule(row, col, hq.items[found]))
    ELSE Ret(laterMoveRule(g, row, col, currentPlayer, hq.items[found]))

(***************************************************************************)
(* The record of the last call.                                            *)
(***************************************************************************)
\* const evaluation: StrategicEvaluation = { ... 0 ... }, in hundredths
NoEvaluation ==
    [aggressiveScore |-> 0, defensiveScore |-> 0, powerUpScore |-> 0,
     chainReactionScore |-> 0, territoryScore |-> 0, baseThreatScore |-> 0]

NoPersonality ==
    [present |-> FALSE, aggressiveness |-> 0, defensiveness |-> 0,
     baseHuntingThirst |-> 0, riskTaking |-> 0, powerUpHunting |-> 0,
     territorialness |-> 0, cornerPreference |-> 0, spreadTendency |-> 0,
     targetEnemy |-> Null]

\* op: the function called; player, row, col: its arguments; threw: whether an
\* exception reached the caller; valid: the result of isValidMoveForAI;
\* isNull, row, col, score: the result of getAIMove; path: the branch that
\* produced it; scored: the number of evaluateMove calls made; pick, count:
\* the sampled index and the length of the candidate list; generated: whether
\* generateAIPersonality ran; cleared: the entries a reset removed; traits:
\* the result of getPersonality; value: a number returned; shared: the cell
\* objects a returned grid shares with its input; sub: the result of
\* evaluateStrategicMove; leaves, plies, width: the depth-0 evaluations, the
\* deepest level and the longest move list of a minimax call; unranked,
\* ranked: the candidates of getBestMove after the first sort and when the
\* selection is made; evaluated: the depth-0 evaluations of a minimax call,
\* each with the grid and the player it was made for.
NoCall ==
    [op |-> "none", player |-> Null, row |-> -1, col |-> -1,
     threw |-> FALSE, valid |-> FALSE, isNull |-> FALSE, score |-> 0,
     path |-> "none", scored |-> 0, pick |-> 0, count |-> 0,
     generated |-> FALSE, cleared |-> 0, traits |-> NoPersonality,
     value |-> 0, shared |-> 0, sub |-> NoEvaluation,
     leaves |-> 0, plies |-> 0, width |-> 0, bonus |-> 0,
     depth |-> 0, isMaximizing |-> FALSE,
     unranked |-> << >>, ranked |-> << >>, evaluated |-> {}]

\* the board as it is mounted: useState(null), no click made yet
IdleBoard ==
    /\ isAnimating = FALSE
    /\ lastClickedCell = << >>
    /\ timers = << >>
    /\ now = 0

(***************************************************************************)
(* The host asks whether a placement is legal.                             *)
(***************************************************************************)
\* isValidMoveForAI is pure: a call leaves nothing behind but its record, so
\* calls made after the first one reach no state the first one does not.
CallIsValidMoveForAI(row, col, player) ==
    LET r == isValidMoveForAI(grid, row, col, player, isBaseMode, hqs)
    IN  /\ last.op = "none"
        /\ last' = [NoCall EXCEPT !.op = "isValidMoveForAI", !.player = player,
                                  !.row = row, !.col = col,
                                  !.threw = r.threw, !.valid = r.val]
        /\ UNCHANGED <<board, variant, grid, isBaseMode, hqs, powerUps, personalities>>

NoPersonalities == [p \in AllPlayers |-> NoPersonality]

InitValid ==
    /\ variant = "rival"
    /\ \E d \in Dims :
         /\ grid \in Grids(d[1], d[2], 0..1)
         /\ hqs \in {Undefined} \cup { Some(s) : s \in HQLists(d[1], d[2]) }
    /\ isBaseMode \in BOOLEAN
    /\ powerUps = Undefined
    /\ personalities = NoPersonalities
    /\ last = NoCall
    /\ IdleBoard

NextValid ==
    \E row \in -1..2, col \in -1..MaxCols, player \in BoardPlayers :
        CallIsValidMoveForAI(row, col, player)

SpecValid == InitValid /\ [][NextValid]_vars

(***************************************************************************)
(* What the claims about the validator speak of.                           *)
(***************************************************************************)
Asked == last.op = "isValidMoveForAI"
InGrid(row, col) == row \in 0..(RowsOf(grid) - 1) /\ col \in 0..(ColsOf(grid) - 1)
HQsAt(row, col) ==
    { i \in DOMAIN hqs.items : hqs.items[i].row = row /\ hqs.items[i].col = col }
HQsOf(player) == { i \in DOMAIN hqs.items : hqs.items[i].player = player }
OwnsDots(player) ==
    \E x \in Coords(RowsOf(grid), ColsOf(grid)) :
        grid[x[1]][x[2]].player = player /\ grid[x[1]][x[2]].atoms > 0
Returned(v) == ~last.threw /\ last.valid = v

\* C1: isValidMoveForAI returns false, and does not throw, for a coordinate
\* outside the grid; in HQ mode it returns false for a coordinate that holds a
\* headquarters of any player; in classic mode it returns false for a cell
\* that another player owns.
C1_LegalitySoundness ==
    Asked =>
        /\ ~InGrid(last.row, last.col) => Returned(FALSE)
        /\ (isBaseMode /\ InGrid(last.row, last.col) /\ HQsAt(last.row, last.col) # {})
              => Returned(FALSE)
        /\ (~isBaseMode /\ InGrid(last.row, last.col)
              /\ grid[last.row][last.col].player \notin {Null, last.player})
              => Returned(FALSE)

\* a free cell in the row of the asking player's own HQ is refused because it
\* is that HQ's cell
C1_Witness ==
    /\ Asked /\ isBaseMode /\ InGrid(last.row, last.col)
    /\ \E i \in HQsAt(last.row, last.col) : hqs.items[i].player = last.player
    /\ grid[last.row][last.col].player = Null
    /\ Returned(FALSE)

\* C2: in HQ mode, while the asking player owns no cell with atoms > 0,
\* isValidMoveForAI returns true only for cells in the row or the column of
\* the player's own HQ (the HQ that the hqs argument holds for the player).
C2_FirstMoveRestriction ==
    (Asked /\ isBaseMode /\ ~OwnsDots(last.player) /\ Returned(TRUE))
        => \A i \in HQsOf(last.player) :
              last.row = hqs.items[i].row \/ last.col = hqs.items[i].col

\* a first move is accepted in the column of the HQ, away from its row
C2_Witness ==
    /\ Asked /\ isBaseMode /\ ~OwnsDots(last.player) /\ Returned(TRUE)
    /\ \E i \in HQsOf(last.player) :
          last.col = hqs.items[i].col /\ last.row # hqs.items[i].row

\* C3: in HQ mode, once the asking player owns a cell with atoms > 0, a cell
\* inside the grid that holds no HQ and is not owned by another player is
\* legal if and only if it lies in the 3x3 area around the player's HQ or
\* isAdjacentTo reports it adjacent to a cell the player owns with atoms > 0.
C3_LaterMoveRule ==
    (/\ Asked /\ isBaseMode /\ OwnsDots(last.player)
     /\ InGrid(last.row, last.col)
     /\ HQsAt(last.row, last.col) = {}
     /\ grid[last.row][last.col].player \in {Null, last.player})
        => \A i \in HQsOf(last.player) :
              /\ ~last.threw
              /\ last.valid <=>
                   \/ /\ last.row \in (hqs.items[i].row - 1)..(hqs.items[i].row + 1)
                      /\ last.col \in (hqs.items[i].col - 1)..(hqs.items[i].col + 1)
                   \/ \E x \in Coords(RowsOf(grid), ColsOf(grid)) :
                        /\ grid[x[1]][x[2]].player = last.player
                        /\ grid[x[1]][x[2]].atoms > 0
                        /\ isAdjacentTo(last.row, last.col, x[1], x[2])

\* a cell two columns away from the HQ is accepted because a dot of the
\* player is next to it
C3_Witness ==
    /\ Asked /\ isBaseMode /\ OwnsDots(last.player) /\ Returned(TRUE)
    /\ \E i \in HQsOf(last.player) : Abs(last.col - hqs.items[i].col) >= 2

\* C4: in classic mode a cell inside the grid is legal if and only if it is
\* unclaimed or owned by the asking player, whatever the atom counts, the hqs
\* argument and the other cells are.
C4_ClassicRule ==
    (Asked /\ ~isBaseMode /\ InGrid(last.row, last.col))
        => /\ ~last.threw
           /\ last.valid <=> grid[last.row][last.col].player \in {Null, last.player}

\* a cell the asking player owns with no atoms, on an HQ cell of the hqs
\* argument, is accepted in classic mode
C4_Witness ==
    /\ Asked /\ ~isBaseMode /\ InGrid(last.row, last.col)
    /\ grid[last.row][last.col] = [player |-> last.player, atoms |-> 0]
    /\ HQsAt(last.row, last.col) # {}
    /\ Returned(TRUE)

(***************************************************************************)
(* Math.random().  A draw is a level k in 0..MaxDraw and stands for the    *)
(* number k / (MaxDraw + 1) of [0, 1).  Trait values are in hundredths.    *)
(***************************************************************************)
Levels == 0..MaxDraw

\* base + Math.random() * span
Scaled(base, span, k) == base + (span * k) \div (MaxDraw + 1)

\* Math.floor(Math.random() * n)
RandomIndex(n, k) == (n * k) \div (MaxDraw + 1)

\* the draws of one getPersonality call, in the order the code makes them;
\* the bounded model takes them all at the same level
DrawVectors == { [i \in 1..9 |-> k] : k \in Levels }

(***************************************************************************)
(* The personality store.                                                  *)
(***************************************************************************)
PlayerOrder == <<"RED", "BLUE", "ORANGE", "BLACK">>

generateAIPersonality(v, d) ==
    IF v = "rival"
    THEN [present |-> TRUE,
          targetEnemy |-> PlayerOrder[RandomIndex(4, d[1]) + 1],
          aggressiveness |-> Scaled(120, 180, d[2]),
          defensiveness |-> Scaled(80, 220, d[3]),
          baseHuntingThirst |-> Scaled(100, 200, d[4]),
          riskTaking |-> 0,
          powerUpHunting |-> Scaled(250, 50, d[5]),
          territorialness |-> Scaled(80, 170, d[6]),
          cornerPreference |-> Scaled(30, 120, d[7]),
          spreadTendency |-> Scaled(100, 150, d[8])]
    ELSE [present |-> TRUE,
          targetEnemy |-> Null,
          aggressiveness |-> Scaled(20, 230, d[1]),
          defensiveness |-> Scaled(20, 230, d[2]),
          baseHuntingThirst |-> 0,
          riskTaking |-> Scaled(20, 230, d[3]),
          powerUpHunting |-> Scaled(80, 220, d[4]),
          territorialness |-> Scaled(20, 230, d[5]),
          cornerPreference |-> Scaled(10, 190, d[6]),
          spreadTendency |-> Scaled(20, 230, d[7])]

\* an entry stored as generateAIPersonality returns it
freshPersonalityAsGenerated(v, player, d) == generateAIPersonality(v, d)

\* the entry getPersonality stores for a player that has none
freshPersonality(v, player, d) ==
    IF v = "rival"
    THEN LET other(q) == q # player
              possibleEnemies == SelectSeq(PlayerOrder, other)
         IN  [generateAIPersonality(v, d) EXCEPT
                 !.targetEnemy = possibleEnemies[RandomIndex(3, d[9]) + 1]]
    ELSE generateAIPersonality(v, d)

\* a store that generates on every call
storeAfterGetAlways(table, v, player, d) ==
    [table EXCEPT ![player] = freshPersonality(v, player, d)]

\* the table after getPersonality(player)
storeAfterGet(table, v, player, d) ==
    IF table[player].present
    THEN table
    ELSE [table EXCEPT ![player] = freshPersonality(v, player, d)]

\* a reset that forgets the first player's entry only
storeAfterResetFirst(table) ==
    [table EXCEPT !["RED"] = NoPersonality]

\* the table after resetPersonalities(): this.personalities.clear()
storeAfterReset(table) ==
    [p \in DOMAIN table |-> NoPersonality]

(***************************************************************************)
(* The move selector.                                                      *)
(***************************************************************************)
PowerUpOverrideScore == 10000
EmergencyBonus == 2000

\* evaluateMove returns a real number that depends on the position, on the
\* personality and on several Math.random() draws; the selector only orders
\* the candidates by it, and the model takes it from a small set of values
ScoreSet == { k * 1500 : k \in 0..MaxScoreStep }

\* the cells of the grid in the order of the two nested loops
CellSeq(g) ==
    [k \in 1..(RowsOf(g) * ColsOf(g)) |->
        [row |-> (k - 1) \div ColsOf(g), col |-> (k - 1) % ColsOf(g), score |-> 0]]

\* an enumeration that keeps every cell of the grid
getValidMovesAll(g, player, baseMode, hq) ==
    [threw |-> FALSE, moves |-> CellSeq(g)]

getValidMoves(g, player, baseMode, hq) ==
    LET cells == CellSeq(g)
        verdict(c) == isValidMoveForAI(g, c.row, c.col, player, baseMode, hq)
        legal(c) == verdict(c).val
    IN  IF \E k \in DOMAIN cells : verdict(cells[k]).threw
        THEN [threw |-> TRUE, moves |-> << >>]
        ELSE [threw |-> FALSE, moves |-> SelectSeq(cells, legal)]

\* powerUps.find(pu => pu.row === move.row && pu.col === move.col)
powerUpScan(pu, move) ==
    FirstHit(pu.items,
             { i \in DOMAIN pu.items :
                 pu.items[i].row = move.row /\ pu.items[i].col = move.col })

\* evaluateStrategicMove reads a property of every element of powerUps and of
\* hqs in HQ mode (forEach), so a null element makes evaluateMove throw
evaluateThrows(baseMode, hq, pu) ==
    baseMode /\ (~WellFormed(pu) \/ ~WellFormed(hq))

\* Array.prototype.sort((a, b) => b.score - a.score): stable, highest first
RECURSIVE SortByScore(_)
SortByScore(moves) ==
    IF Len(moves) <= 1 THEN moves
    ELSE LET m == moves[Len(moves)]
             front == SortByScore(SubSeq(moves, 1, Len(moves) - 1))
             ahead == Cardinality({ j \in DOMAIN front : front[j].score >= m.score })
         IN  SubSeq(front, 1, ahead) \o <<m>> \o SubSeq(front, ahead + 1, Len(front))

Manhattan(r1, c1, r2, c2) == Abs(r1 - r2) + Abs(c1 - c2)

criticalThreat(g, player, ourHQ) ==
    \E r \in Max(0, ourHQ.row - 2)..Min(RowsOf(g) - 1, ourHQ.row + 2) :
    \E c \in Max(0, ourHQ.col - 2)..Min(ColsOf(g) - 1, ourHQ.col + 2) :
        /\ g[r][c].player # Null
        /\ g[r][c].player # player
        /\ g[r][c].atoms >= 2

\* a bonus handed to every candidate
withDefenseBonusAll(moves, ourHQ) ==
    [k \in DOMAIN moves |-> [moves[k] EXCEPT !.score = @ + EmergencyBonus]]

withDefenseBonus(moves, ourHQ) ==
    [k \in DOMAIN moves |->
        IF Manhattan(moves[k].row, moves[k].col, ourHQ.row, ourHQ.col) <= 2
        THEN [moves[k] EXCEPT !.score = @ + EmergencyBonus]
        ELSE moves[k]]

\* what getBestMove hands back: an exception, null, or a move
Thrown(n) ==
    [threw |-> TRUE, isNull |-> FALSE, row |-> -1, col |-> -1, score |-> 0,
     path |-> "thrown", scored |-> n, pick |-> 0, count |-> 0]
\* a null result handed back after one candidate more has been scored
NullMoveScored(n) ==
    [threw |-> FALSE, isNull |-> TRUE, row |-> -1, col |-> -1, score |-> 0,
     path |-> "nomoves", scored |-> n + 1, pick |-> 0, count |-> 0]
NullMove(n) ==
    [threw |-> FALSE, isNull |-> TRUE, row |-> -1, col |-> -1, score |-> 0,
     path |-> "nomoves", scored |-> n, pick |-> 0, count |-> 0]
Chosen(m, how, n, i, len) ==
    [threw |-> FALSE, isNull |-> FALSE, row |-> m.row, col |-> m.col,
     score |-> m.score, path |-> how, scored |-> n, pick |-> i, count |-> len]

\* validMoves[bestMoveIndex]; reading bestMove.row of an index past the end
\* throws a TypeError
pickMove(sorted, i, how, n) ==
    IF i + 1 \in DOMAIN sorted
    THEN Chosen(sorted[i + 1], how, n, i, Len(sorted))
    ELSE Thrown(n)

\* getBestMove of aiPlayer.ts from the sort on: the emergency defence and the
\* draw among the first topMoveCount candidates
selectAfterScoring(sorted, g, player, baseMode, hq, draw) ==
    LET found == IF baseMode /\ hq.defined THEN playerHQScan(hq, player) ELSE 0
        threat == found # 0 /\ criticalThreat(g, player, hq.items[found])
        topMoveCount == Max(1, Min(3, Len(sorted)))
    IN  pickMove(IF threat
                 THEN SortByScore(withDefenseBonus(sorted, hq.items[found]))
                 ELSE sorted,
                 RandomIndex(topMoveCount, draw),
                 IF threat THEN "emergency" ELSE "topk",
                 Len(sorted))

\* the candidates with the values evaluateMove returned for them
withScores(moves, sc) ==
    [k \in DOMAIN moves |-> [moves[k] EXCEPT !.score = sc[k]]]

\* getBestMove of aiPlayer.ts once getValidMoves has returned vm
selectAfterEnumeration(vm, g, player, baseMode, hq, pu, sc, draw) ==
    LET moves == vm.moves
        \* the candidates at which the power-up loop stops
        stops == IF baseMode /\ pu.defined
                 THEN { k \in DOMAIN moves : powerUpScan(pu, moves[k]) # 0 }
                 ELSE {}
        stop == CHOOSE k \in stops : \A j \in stops : k <= j
    IN
    IF vm.threw THEN Thrown(0)
    ELSE IF Len(moves) = 0 THEN NullMove(0)
    ELSE IF stops # {}
    THEN (IF pu.items[powerUpScan(pu, moves[stop])].nul
          THEN Thrown(0)
          ELSE Chosen([moves[stop] EXCEPT !.score = PowerUpOverrideScore],
                      "powerup", 0, stop - 1, Len(moves)))
    ELSE IF evaluateThrows(baseMode, hq, pu) THEN Thrown(0)
    ELSE selectAfterScoring(SortByScore(withScores(moves, sc)),
                            g, player, baseMode, hq, draw)

\* getBestMove of aiPlayer.ts; sc[k] is the value evaluateMove returns for the
\* k-th candidate, draw the level of the Math.random() draw of the selection
getBestMove(g, player, baseMode, hq, pu, sc, draw) ==
    selectAfterEnumeration(getValidMoves(g, player, baseMode, hq),
                           g, player, baseMode, hq, pu, sc, draw)

\* Math.max(1, Math.ceil(validMoves.length * (0.1 + riskTaking * 0.4)))
topMoves(n, riskTaking) ==
    Max(1, (n * (100 + 4 * riskTaking) + 999) \div 1000)

\* the first cell at which isValidMoveForAI throws, 0 if there is none
firstFault(g, player, baseMode, hq) ==
    LET cells == CellSeq(g)
        faults == { k \in DOMAIN cells :
                      isValidMoveForAI(g, cells[k].row, cells[k].col,
                                       player, baseMode, hq).threw }
    IN  IF faults = {} THEN 0 ELSE CHOOSE k \in faults : \A j \in faults : k <= j

\* getBestMove of part_000 from the loop on: the legality and the score of a
\* cell are computed in the same iteration
selectSimple(fault, vm, g, player, baseMode, hq, pu, sc, draw, riskTaking) ==
    LET n == Len(vm.moves)
        legal(c) == isValidMoveForAI(g, c.row, c.col, player, baseMode, hq).val
        \* the legal cells the loop has passed when it reaches the cell fault
        legalBefore == SelectSeq(SubSeq(CellSeq(g), 1, fault - 1), legal)
    IN
    IF fault # 0
    THEN Thrown(IF evaluateThrows(baseMode, hq, pu) THEN 0 ELSE Len(legalBefore))
    ELSE IF n = 0 THEN NullMove(0)
    ELSE IF evaluateThrows(baseMode, hq, pu) THEN Thrown(0)
    ELSE pickMove(SortByScore(withScores(vm.moves, sc)),
                  RandomIndex(Min(topMoves(n, riskTaking), n), draw),
                  "topk", n)

\* getBestMove of part_000: cols = grid[0].length throws on a grid with no
\* rows, and no override is applied
getBestMoveSimple(g, player, baseMode, hq, pu, sc, draw, riskTaking) ==
    IF Length(g) = 0 THEN Thrown(0)
    ELSE selectSimple(firstFault(g, player, baseMode, hq),
                      getValidMoves(g, player, baseMode, hq),
                      g, player, baseMode, hq, pu, sc, draw, riskTaking)

\* the engine of the build in use
bestMoveOf(v, g, player, baseMode, hq, pu, sc, draw, riskTaking) ==
    IF v = "rival"
    THEN getBestMove(g, player, baseMode, hq, pu, sc, draw)
    ELSE getBestMoveSimple(g, player, baseMode, hq, pu, sc, draw, riskTaking)

\* a getAIMove without its try / catch
getAIMoveNoCatch(best) == best

\* getAIMove: what getBestMove throws is caught and turned into null
getAIMove(best) ==
    IF best.threw
    THEN [NullMove(best.scored) EXCEPT !.path = "caught"]
    ELSE best

(***************************************************************************)
(* The calls of the host.  getPersonality is the first statement of        *)
(* getBestMove, so the table is updated whatever getBestMove does next.    *)
(***************************************************************************)
\* what the caller of getAIMove sees, and what the call did to the table
Answer(player, r, generated, traits) ==
    [NoCall EXCEPT !.op = "getAIMove", !.player = player,
                   !.threw = r.threw, !.isNull = r.isNull,
                   !.row = r.row, !.col = r.col, !.score = r.score,
                   !.path = r.path, !.scored = r.scored,
                   !.pick = r.pick, !.count = r.count,
                   !.generated = generated, !.traits = traits]

\* the number of values evaluateMove returns during the call
ScoresNeeded(v, g, player, baseMode, hq, pu, riskTaking) ==
    bestMoveOf(v, g, player, baseMode, hq, pu, [k \in Nat |-> 0], 0, riskTaking).scored

GetAIMoveWith(player, table) ==
    \E draw \in Levels :
    \E sc \in [1..ScoresNeeded(variant, grid, player, isBaseMode, hqs, powerUps,
                               table[player].riskTaking) -> ScoreSet] :
        /\ personalities' = table
        /\ last' = Answer(player,
                          getAIMove(bestMoveOf(variant, grid, player, isBaseMode,
                                               hqs, powerUps, sc, draw,
                                               table[player].riskTaking)),
                          ~personalities[player].present,
                          table[player])
        /\ UNCHANGED <<board, variant, grid, isBaseMode, hqs, powerUps>>

CallGetAIMove(player) ==
    \E d \in DrawVectors :
        GetAIMoveWith(player, storeAfterGet(personalities, variant, player, d))

CallResetAIPersonalities ==
    /\ personalities' = storeAfterReset(personalities)
    /\ last' = [NoCall EXCEPT !.op = "resetAIPersonalities",
                              !.cleared = Cardinality({ p \in AllPlayers : personalities[p].present })]
    /\ UNCHANGED <<board, variant, grid, isBaseMode, hqs, powerUps>>

(***************************************************************************)
(* The inputs of the selector: boards on which each player owns at most    *)
(* one cell, of two atoms, and the boards owned entirely by one player; HQ *)
(* lists with the RED base in the first column, followed by the BLUE base  *)
(* in the last one; power-up lists of at most MaxPowerUps distinct cells;  *)
(* and the same lists with a null entry at the end.                        *)
(***************************************************************************)
OwnedBy(g, R, C, p) == { x \in Coords(R, C) : g[x[1]][x[2]].player = p }

MoveGrids(R, C) ==
    { g \in Grids(R, C, {2}) :
        \A p \in BoardPlayers : Cardinality(OwnedBy(g, R, C, p)) <= 1 }
    \cup { MkGrid(R, C, Coords(R, C), [x \in Coords(R, C) |-> [player |-> p, atoms |-> 2]]) :
             p \in BoardPlayers }

BaseHQLists(R, C) ==
    { s \in HQLists(R, C) :
        /\ \A i \in DOMAIN s : s[i].col = (IF s[i].player = "RED" THEN 0 ELSE C - 1)
        /\ \A i, j \in DOMAIN s : i < j => s[i].player = "RED" }

PowerUpLists(R, C) ==
    { s \in UNION { [1..n -> { PowerUpCell(x[1], x[2], "diamond") : x \in Coords(R, C) }] :
                    n \in 0..MaxPowerUps } :
        \A i, j \in DOMAIN s : i # j => s[i] # s[j] }

Malformed(lists, null, maxLen) ==
    { Append(s, null) : s \in { t \in lists : Len(t) < maxLen } }

Variants == {"rival", "simple"}

InitMove ==
    /\ variant \in Variants
    /\ \E d \in Dims :
         /\ grid \in MoveGrids(d[1], d[2])
         /\ \/ /\ isBaseMode = FALSE
               /\ hqs = Undefined
               /\ powerUps = Undefined
            \/ /\ isBaseMode = TRUE
               /\ hqs \in {Undefined}
                      \cup { Some(s) : s \in BaseHQLists(d[1], d[2]) }
                      \cup { Some(s) : s \in Malformed(BaseHQLists(d[1], d[2]),
                                                   [HQCell(0, 0, Null, 0) EXCEPT !.nul = TRUE],
                                                   MaxHQs) }
               /\ powerUps \in {Undefined}
                      \cup { Some(s) : s \in PowerUpLists(d[1], d[2]) }
                      \cup { Some(s) : s \in Malformed(PowerUpLists(d[1], d[2]),
                                                   [PowerUpCell(0, 0, "none") EXCEPT !.nul = TRUE],
                                                   MaxPowerUps + 1) }
    /\ personalities = NoPersonalities
    /\ last = NoCall
    /\ IdleBoard

\* one call of getAIMove on each input
NextMove ==
    /\ last.op = "none"
    /\ \E player \in BoardPlayers : CallGetAIMove(player)

SpecMove == InitMove /\ [][NextMove]_vars

(***************************************************************************)
(* The store over a match: getAIMove and resetAIPersonalities in any       *)
(* order, on the empty two-by-two board with both bases and on the grid    *)
(* with no rows.                                                           *)
(***************************************************************************)
InitStore ==
    /\ variant \in Variants
    /\ \/ /\ isBaseMode = FALSE
          /\ grid = MkGrid(0, 0, {}, << >>)
          /\ hqs = Undefined
       \/ /\ isBaseMode = TRUE
          /\ grid = MkGrid(2, 2, {}, << >>)
          /\ hqs = Some(<<HQCell(0, 0, "RED", 3), HQCell(1, 1, "BLUE", 3)>>)
    /\ powerUps = Undefined
    /\ personalities = NoPersonalities
    /\ last = NoCall
    /\ IdleBoard

NextStore ==
    \/ \E player \in BoardPlayers : CallGetAIMove(player)
    \/ CallResetAIPersonalities

SpecStore == InitStore /\ [][NextStore]_vars

(***************************************************************************)
(* Claims about getAIMove, checked under SpecMove.                         *)
(***************************************************************************)
Answered == last.op = "getAIMove"
Legal(row, col, player) ==
    isValidMoveForAI(grid, row, col, player, isBaseMode, hqs) = Ret(TRUE)
LegalCells(player) ==
    { x \in Coords(RowsOf(grid), ColsOf(grid)) : Legal(x[1], x[2], player) }

\* C5: a move returned by getAIMove is one cell inside the grid for which
\* isValidMoveForAI is true on the arguments of the call; it comes from the
\* power-up override, the emergency defence or the draw among the top
\* candidates, and the drawn index lies inside the candidate list.
C5_ReturnedMoveIsLegal ==
    (Answered /\ ~last.isNull) =>
        /\ InGrid(last.row, last.col)
        /\ Legal(last.row, last.col, last.player)
        /\ last.path \in {"powerup", "emergency", "topk"}
        /\ last.pick \in 0..(last.count - 1)

\* C5 witness: under a threat to the base, the third of the re-sorted
\* candidates is returned.
C5_Witness ==
    /\ Answered /\ ~last.isNull
    /\ last.path = "emergency" /\ last.pick = 2
    /\ Legal(last.row, last.col, last.player)

\* C6: in HQ mode, when exactly one legal cell of the player holds a power-up,
\* getAIMove returns that cell with the score 10000, whatever the values of
\* evaluateMove are.  Stated for both builds of the engine.
C6_PowerUpPriority ==
    LET PowerUpCells ==
            { <<powerUps.items[i].row, powerUps.items[i].col>> :
                i \in DOMAIN powerUps.items }
    IN  (/\ Answered /\ isBaseMode
         /\ powerUps.defined /\ WellFormed(powerUps) /\ WellFormed(hqs)
         /\ Cardinality(LegalCells(last.player) \cap PowerUpCells) = 1)
            => /\ ~last.isNull
               /\ <<last.row, last.col>> \in PowerUpCells
               /\ last.score = PowerUpOverrideScore

\* C7: when no cell of the grid is a legal placement for the player,
\* getAIMove returns null and evaluateMove has returned no value.
C7_NoLegalMoveGivesNull ==
    (Answered /\ LegalCells(last.player) = {})
        => last.isNull /\ last.scored = 0

\* C7 witness: a classic-mode board on which every cell belongs to the other
\* player.
C7_Witness ==
    /\ Answered /\ ~isBaseMode /\ RowsOf(grid) > 0
    /\ \A x \in Coords(RowsOf(grid), ColsOf(grid)) :
          grid[x[1]][x[2]].player \notin {Null, last.player}
    /\ last.isNull /\ last.path = "nomoves"

\* C8: getAIMove hands no exception to its caller: what getBestMove throws
\* comes back as null.  A grid without rows gives null, and so does, in HQ
\* mode, an hqs list with a null entry.
C8_NeverThrows ==
    Answered =>
        /\ ~last.threw
        /\ last.path = "caught" => last.isNull
        /\ RowsOf(grid) = 0 => last.isNull
        /\ (isBaseMode /\ RowsOf(grid) > 0 /\ ~WellFormed(hqs))
              => last.isNull /\ last.path = "caught"

\* C8 witness: a null entry in powerUps makes the selector throw, and the
\* caller receives null.
C8_Witness ==
    /\ Answered /\ last.path = "caught" /\ last.isNull /\ ~last.threw
    /\ RowsOf(grid) > 0 /\ WellFormed(hqs) /\ ~WellFormed(powerUps)

(***************************************************************************)
(* Claims about the personality store, checked under SpecStore.            *)
(***************************************************************************)

\* C9: a step that is not a reset leaves every existing entry of the table as
\* it is, and a getPersonality(p) for a player that has an entry returns that
\* entry.
C9_AppendOnly ==
    [][ /\ last'.op # "resetAIPersonalities" =>
             \A p \in AllPlayers :
                 personalities[p].present => personalities'[p] = personalities[p]
        /\ (Answered' /\ personalities[last'.player].present) =>
             /\ ~last'.generated
             /\ last'.traits = personalities[last'.player] ]_vars

\* C9 witness: both players have an entry and the last call returned the
\* stored one.
C9_Witness ==
    /\ Answered /\ ~last.generated
    /\ \A p \in BoardPlayers : personalities[p].present
    /\ last.traits = personalities[last.player]

\* C10: after resetAIPersonalities no player has an entry, and the call of
\* getPersonality that follows generates the personality it returns.
C10_ResetClearsAll ==
    [][ /\ last'.op = "resetAIPersonalities" => \A p \in AllPlayers : ~personalities'[p].present
        /\ (last.op = "resetAIPersonalities" /\ Answered') =>
             /\ last'.generated
             /\ \E d \in DrawVectors :
                   last'.traits = freshPersonality(variant, last'.player, d) ]_vars

\* C10 witness: a reset has removed the entries of both players.
C10_Witness ==
    /\ last.op = "resetAIPersonalities" /\ last.cleared = 2
    /\ \A p \in AllPlayers : ~personalities[p].present

\* C11: in the build with rival targeting, the targetEnemy of a stored
\* personality is one of the other three players, never its owner, and a step
\* that is not a reset leaves the targetEnemy of every existing entry as it is.
C11_TargetIsAnotherPlayer ==
    [][ variant = "rival" =>
          /\ \A p \in AllPlayers :
                personalities'[p].present =>
                    /\ personalities'[p].targetEnemy \in AllPlayers
                    /\ personalities'[p].targetEnemy # p
          /\ last'.op # "resetAIPersonalities" =>
                \A p \in AllPlayers :
                    personalities[p].present =>
                        personalities'[p].targetEnemy = personalities[p].targetEnemy ]_vars

\* C11 witness: RED's entry targets BLUE, BLUE's entry targets RED, and the
\* last call found its entry in the table.
C11_Witness ==
    /\ variant = "rival" /\ Answered /\ ~last.generated
    /\ personalities["RED"].present /\ personalities["RED"].targetEnemy = "BLUE"
    /\ personalities["BLUE"].present /\ personalities["BLUE"].targetEnemy = "RED"

(***************************************************************************)
(* The geometry of the board.  gameUtils.calculateCriticalMass is not part *)
(* of the sources at hand: a corner cell explodes at 2 atoms, an edge cell *)
(* at 3 and an interior cell at 4.                                         *)
(***************************************************************************)
calculateCriticalMass(row, col, rows, cols) ==
    LET onRowEdge == row = 0 \/ row = rows - 1
        onColEdge == col = 0 \/ col = cols - 1
    IN  IF onRowEdge /\ onColEdge THEN 2
        ELSE IF onRowEdge \/ onColEdge THEN 3
        ELSE 4

getNeighborsForAI(row, col, rows, cols) ==
    LET inside(x) == x[1] >= 0 /\ x[1] < rows /\ x[2] >= 0 /\ x[2] < cols
    IN  SelectSeq(<< <<row - 1, col>>, <<row + 1, col>>, <<row, col - 1>>, <<row, col + 1>> >>,
                  inside)

(***************************************************************************)
(* Grids as objects.  A grid is an array of row arrays, a row array holds  *)
(* references to cell objects.  A heap has the row arrays and the cell     *)
(* objects, numbered from 0; a grid reference lists the row arrays of a    *)
(* grid.  Two grids share a cell when a cell object is reachable from both.*)
(***************************************************************************)
HeapOf(g) ==
    [rows  |-> [r \in 0..(RowsOf(g) - 1) |->
                   [c \in 0..(ColsOf(g) - 1) |-> r * ColsOf(g) + c]],
     cells |-> [i \in 0..(RowsOf(g) * ColsOf(g) - 1) |->
                   g[i \div ColsOf(g)][i % ColsOf(g)]]]

RefOf(g) == [r \in 0..(RowsOf(g) - 1) |-> r]

Deref(h, a) ==
    [r \in DOMAIN a |-> [c \in DOMAIN h.rows[a[r]] |-> h.cells[h.rows[a[r]][c]]]]

\* grid.map(row => row.map(cell => ({ ...cell }))): new row arrays, new cells
copyDeep(h, a) ==
    LET nR == Cardinality(DOMAIN h.rows)
        nC == Cardinality(DOMAIN h.cells)
        R == Cardinality(DOMAIN a)
        C == IF R = 0 THEN 0 ELSE Cardinality(DOMAIN h.rows[a[0]])
    IN  [heap |->
            [rows  |-> [i \in 0..(nR + R - 1) |->
                           IF i < nR THEN h.rows[i]
                           ELSE [c \in 0..(C - 1) |-> nC + (i - nR) * C + c]],
             cells |-> [i \in 0..(nC + R * C - 1) |->
                           IF i < nC THEN h.cells[i]
                           ELSE h.cells[h.rows[a[(i - nC) \div C]][(i - nC) % C]]]],
         ref |-> [r \in DOMAIN a |-> nR + r]]

\* a[row][col] = v, v a new object
storeNewCell(h, a, row, col, v) ==
    LET nC == Cardinality(DOMAIN h.cells)
    IN  [rows  |-> [h.rows EXCEPT ![a[row]][col] = nC],
         cells |-> [i \in 0..nC |-> IF i < nC THEN h.cells[i] ELSE v]]

\* the cell object a[row][col] gets one atom more and the player as owner
bumpCell(h, a, row, col, player) ==
    [h EXCEPT !.cells[h.rows[a[row]][col]] =
                  [atoms |-> @.atoms + 1, player |-> player]]

\* what a call on the grid g leaves behind: the grid it returns (if any), the
\* caller's grid after the call, the cell objects both reach, and a value
Effect(h, in, out, v) ==
    LET cellsOf(a) == UNION { { h.rows[a[r]][c] : c \in DOMAIN h.rows[a[r]] } : r \in DOMAIN a }
    IN  [grid |-> Deref(h, out), input |-> Deref(h, in),
         shared |-> Cardinality(cellsOf(in) \cap cellsOf(out)), value |-> v]

\* simulateMove over one copy step and one store
simulateMoveOn(cp, in, row, col, player) ==
    Effect(storeNewCell(cp.heap, cp.ref, row, col,
                        [atoms |-> Deref(cp.heap, cp.ref)[row][col].atoms + 1,
                         player |-> player]),
           in, cp.ref, 0)

\* a simulateMove that copies the outer array only ([...grid])
simulateMoveShallow(g, row, col, player) ==
    simulateMoveOn([heap |-> HeapOf(g), ref |-> RefOf(g)], RefOf(g), row, col, player)

simulateMove(g, row, col, player) ==
    simulateMoveOn(copyDeep(HeapOf(g), RefOf(g)), RefOf(g), row, col, player)

(***************************************************************************)
(* The chain-reaction estimate.                                            *)
(***************************************************************************)
RECURSIVE SumSeq(_)
SumSeq(s) == IF Len(s) = 0 THEN 0 ELSE Head(s) + SumSeq(Tail(s))

\* the same loops with the test "reaches exactly the critical mass"
chainPotentialExact(sim, row, col, rows, cols) ==
    LET wouldExplode(x) ==
            sim[x[1]][x[2]].atoms + 1 = calculateCriticalMass(x[1], x[2], rows, cols)
        second(n) == SelectSeq(getNeighborsForAI(n[1], n[2], rows, cols), wouldExplode)
        first == SelectSeq(getNeighborsForAI(row, col, rows, cols), wouldExplode)
    IN  IF sim[row][col].atoms >= calculateCriticalMass(row, col, rows, cols)
        THEN SumSeq([i \in 1..Len(first) |-> 5 + 2 * Len(second(first[i]))])
        ELSE 0

\* the same loops without the inner one
chainPotentialOneLevel(sim, row, col, rows, cols) ==
    LET wouldExplode(x) ==
            sim[x[1]][x[2]].atoms + 1 >= calculateCriticalMass(x[1], x[2], rows, cols)
        first == SelectSeq(getNeighborsForAI(row, col, rows, cols), wouldExplode)
    IN  IF sim[row][col].atoms >= calculateCriticalMass(row, col, rows, cols)
        THEN 5 * Len(first)
        ELSE 0

\* the loops of calculateChainReactionPotential over the simulated grid sim
chainPotentialOf(sim, row, col, rows, cols) ==
    LET wouldExplode(x) ==
            sim[x[1]][x[2]].atoms + 1 >= calculateCriticalMass(x[1], x[2], rows, cols)
        second(n) == SelectSeq(getNeighborsForAI(n[1], n[2], rows, cols), wouldExplode)
        first == SelectSeq(getNeighborsForAI(row, col, rows, cols), wouldExplode)
    IN  IF sim[row][col].atoms >= calculateCriticalMass(row, col, rows, cols)
        THEN SumSeq([i \in 1..Len(first) |-> 5 + 2 * Len(second(first[i]))])
        ELSE 0

\* calculateChainReactionPotential once the grid has been copied and the cell
\* of the copy has received its atom
chainPotentialOn(h, in, out, row, col) ==
    Effect(h, in, out,
           chainPotentialOf(Deref(h, out), row, col,
                            Cardinality(DOMAIN out),
                            Cardinality(DOMAIN h.rows[out[0]])))

potentialAfterCopy(cp, in, row, col, currentPlayer) ==
    chainPotentialOn(bumpCell(cp.heap, cp.ref, row, col, currentPlayer),
                     in, cp.ref, row, col)

\* the call with its effect on the objects of the caller's grid
chainReactionCall(g, row, col, currentPlayer) ==
    potentialAfterCopy(copyDeep(HeapOf(g), RefOf(g)), RefOf(g), row, col, currentPlayer)

calculateChainReactionPotential(g, row, col, currentPlayer) ==
    chainReactionCall(g, row, col, currentPlayer).value

(***************************************************************************)
(* The simulator called on its own: three-by-three boards on which at most *)
(* three cells hold one to three atoms.                                    *)
(***************************************************************************)
Called(op, player, row, col, e) ==
    [NoCall EXCEPT !.op = op, !.player = player, !.row = row, !.col = col,
                   !.value = e.value, !.shared = e.shared]

CallSimulateMove(row, col, player) ==
    /\ grid' = simulateMove(grid, row, col, player).input
    /\ last' = Called("simulateMove", player, row, col,
                      simulateMove(grid, row, col, player))
    /\ UNCHANGED <<board, variant, isBaseMode, hqs, powerUps, personalities>>

CallCalculateChainReactionPotential(row, col, player) ==
    /\ grid' = chainReactionCall(grid, row, col, player).input
    /\ last' = Called("calculateChainReactionPotential", player, row, col,
                      chainReactionCall(grid, row, col, player))
    /\ UNCHANGED <<board, variant, isBaseMode, hqs, powerUps, personalities>>

\* calculateChainReactionPotential and simulateMove read the same in both
\* builds
InitChain ==
    /\ variant = "rival"
    /\ grid \in UNION { { MkGrid(3, 3, S, [x \in S |-> [player |-> "BLUE", atoms |-> f[x]]]) :
                            f \in [S -> 1..3] } :
                        S \in { T \in SUBSET Coords(3, 3) : Cardinality(T) <= 3 } }
    /\ isBaseMode = FALSE
    /\ hqs = Undefined
    /\ powerUps = Undefined
    /\ personalities = NoPersonalities
    /\ last = NoCall
    /\ IdleBoard

\* one call on each board
NextChain ==
    /\ last.op = "none"
    /\ \E x \in Coords(RowsOf(grid), ColsOf(grid)), player \in BoardPlayers :
          \/ CallSimulateMove(x[1], x[2], player)
          \/ CallCalculateChainReactionPotential(x[1], x[2], player)

SpecChain == InitChain /\ [][NextChain]_vars

(***************************************************************************)
(* Claims about calculateChainReactionPotential, checked under SpecChain.  *)
(***************************************************************************)
Estimated == last.op = "calculateChainReactionPotential"

\* the cells next to x, and whether one atom more brings x, on the grid with
\* the placement made, to its critical mass
Orthogonal(x) ==
    { y \in Coords(RowsOf(grid), ColsOf(grid)) : Manhattan(x[1], x[2], y[1], y[2]) = 1 }
Ripe(x) ==
    grid[x[1]][x[2]].atoms + (IF x = <<last.row, last.col>> THEN 1 ELSE 0) + 1
        >= calculateCriticalMass(x[1], x[2], RowsOf(grid), ColsOf(grid))

\* C13: with the evaluated cell fixed, more atoms in one other cell never give
\* a smaller calculateChainReactionPotential.
C13_ChainPotentialMonotone ==
    Estimated =>
        \A x \in Coords(RowsOf(grid), ColsOf(grid)) \ {<<last.row, last.col>>} :
        \A k \in 1..MaxMore :
            calculateChainReactionPotential([grid EXCEPT ![x[1]][x[2]].atoms = @ + k],
                                            last.row, last.col, last.player)
                >= last.value

\* C13 witness: one atom more in a neighbour raises a positive estimate.
C13_Witness ==
    /\ Estimated /\ last.value > 0
    /\ \E x \in Orthogonal(<<last.row, last.col>>) :
          calculateChainReactionPotential([grid EXCEPT ![x[1]][x[2]].atoms = @ + 1],
                                          last.row, last.col, last.player)
              > last.value

\* C16: calculateChainReactionPotential is 0 when the placement leaves the cell
\* below its critical mass; otherwise it is 5 for each orthogonal neighbour
\* that one more atom brings to its critical mass, plus 2 for each orthogonal
\* neighbour of such a neighbour for which the same holds on the grid with
\* the placement made.  It is never negative and is the same for every player.
C16_ChainPotentialValue ==
    Estimated =>
        LET x == <<last.row, last.col>>
            first == { n \in Orthogonal(x) : Ripe(n) }
            second == { p \in first \X Coords(RowsOf(grid), ColsOf(grid)) :
                          p[2] \in Orthogonal(p[1]) /\ Ripe(p[2]) }
        IN  /\ last.value >= 0
            /\ last.value = (IF grid[x[1]][x[2]].atoms + 1 >=
                                 calculateCriticalMass(x[1], x[2], RowsOf(grid), ColsOf(grid))
                             THEN 5 * Cardinality(first) + 2 * Cardinality(second)
                             ELSE 0)
            /\ \A q \in AllPlayers :
                  calculateChainReactionPotential(grid, last.row, last.col, q) = last.value

\* C16 witness: one neighbour counts, and so do the placed cell and one more
\* cell next to that neighbour.
C16_Witness ==
    /\ Estimated /\ last.value = 5 + 2 + 2
    /\ \E n \in Orthogonal(<<last.row, last.col>>) :
          Ripe(n) /\ \E y \in Orthogonal(n) \ {<<last.row, last.col>>} : Ripe(y)

(***************************************************************************)
(* evaluateStrategicMove.  The six sub-scores are kept in hundredths of a  *)
(* point; every Math.random() draw of one call is taken at the level k.    *)
(* The lists hq and pu are well formed (see evaluateThrows).               *)
(***************************************************************************)
Points(n) == 100 * n

\* cell.player && cell.player !== currentPlayer
enemyCell(c, currentPlayer) == c.player # Null /\ c.player # currentPlayer

\* cell.atoms + 1 >= criticalMass
willExplode(g, row, col) ==
    g[row][col].atoms + 1 >= calculateCriticalMass(row, col, RowsOf(g), ColsOf(g))

\* the orthogonal neighbours that hold an enemy cell
enemyNeighbors(g, row, col, currentPlayer) ==
    LET enemy(x) == enemyCell(g[x[1]][x[2]], currentPlayer)
    IN  SelectSeq(getNeighborsForAI(row, col, RowsOf(g), ColsOf(g)), enemy)

\* the cells of the window of radius n around (row, col), clipped to the grid
Window(g, row, col, n) ==
    (Max(0, row - n)..Min(RowsOf(g) - 1, row + n))
        \X (Max(0, col - n)..Min(ColsOf(g) - 1, col + n))

RECURSIVE SumOver(_, _)
\* the sum of f over the set S
SumOver(f, S) ==
    IF S = {} THEN 0
    ELSE LET x == CHOOSE y \in S : TRUE IN f[x] + SumOver(f, S \ {x})

\* 1. power-up scoring
powerUpScore(v, row, col, baseMode, pu) ==
    IF baseMode /\ pu.defined
    THEN (IF powerUpScan(pu, [row |-> row, col |-> col]) # 0
          THEN Points(IF v = "rival" THEN 5000 ELSE 150) ELSE 0)
         + SumSeq([i \in DOMAIN pu.items |->
                     LET d == Manhattan(pu.items[i].row, pu.items[i].col, row, col)
                     IN  IF d <= 3
                         THEN Points((4 - d) * (IF v = "rival" THEN 500 ELSE 25))
                         ELSE 0])
    ELSE 0

\* 2. position scoring
territoryScore(g, row, col, currentPlayer, baseMode, k) ==
    LET rows == RowsOf(g)
        cols == ColsOf(g)
        isCorner == (row = 0 \/ row = rows - 1) /\ (col = 0 \/ col = cols - 1)
        isEdge == row = 0 \/ row = rows - 1 \/ col = 0 \/ col = cols - 1
        own(x) == g[x[1]][x[2]].player = currentPlayer
        hasOwnNeighbor == Len(SelectSeq(getNeighborsForAI(row, col, rows, cols), own)) > 0
    IN  IF ~baseMode
        THEN (IF isCorner THEN Scaled(2000, 2000, k)
              ELSE IF isEdge THEN Scaled(800, 1000, k)
              ELSE Scaled(200, 800, k))
             + (IF hasOwnNeighbor THEN 0 ELSE Scaled(800, 1200, k))
        ELSE (IF isCorner THEN Scaled(100, 600, k)
              ELSE IF isEdge THEN Scaled(300, 600, k)
              ELSE Scaled(100, 600, k))

\* enemyNeighborPenalty (classic mode)
enemyNeighborPenalty(g, row, col, currentPlayer, baseMode, k) ==
    IF baseMode THEN 0
    ELSE Len(enemyNeighbors(g, row, col, currentPlayer)) * Scaled(1000, 1000, k)

\* what an immediate explosion adds to the aggressive score, given whether
\* the placement explodes
explosionScore(v, g, row, col, currentPlayer, explodes) ==
    LET near == enemyNeighbors(g, row, col, currentPlayer)
    IN  IF ~explodes THEN 0
        ELSE IF v = "rival"
        THEN SumSeq([i \in DOMAIN near |->
                        Points(g[near[i][1]][near[i][2]].atoms * 100 + 1000)])
             + Points(200)
        ELSE SumSeq([i \in DOMAIN near |-> Points(15 * g[near[i][1]][near[i][2]].atoms)])

\* placementStrategyScore (aiPlayer.ts only)
placementStrategyScore(v, g, row, col, currentPlayer) ==
    LET near == enemyNeighbors(g, row, col, currentPlayer)
        ourTimeToExplode ==
            calculateCriticalMass(row, col, RowsOf(g), ColsOf(g)) - (g[row][col].atoms + 1)
        enemyTimeToExplode(x) ==
            calculateCriticalMass(x[1], x[2], RowsOf(g), ColsOf(g)) - g[x[1]][x[2]].atoms
    IN  IF v # "rival" THEN 0
        ELSE (IF enemyCell(g[row][col], currentPlayer) THEN Points(-300) ELSE 0)
             + SumSeq([i \in DOMAIN near |->
                         IF ourTimeToExplode <= enemyTimeToExplode(near[i])
                            /\ ourTimeToExplode >= 0
                         THEN Points((enemyTimeToExplode(near[i]) - ourTimeToExplode + 1) * 150)
                         ELSE 0])

\* enemyProximityScore (base mode)
enemyProximityScore(g, row, col, currentPlayer, baseMode) ==
    LET W == Window(g, row, col, 2)
    IN  IF ~baseMode THEN 0
        ELSE SumOver([x \in W |->
                        IF enemyCell(g[x[1]][x[2]], currentPlayer)
                        THEN Points((3 - Manhattan(x[1], x[2], row, col))
                                    * g[x[1]][x[2]].atoms * 2)
                        ELSE 0], W)

\* an aggressive score that counts the explosion whatever the cell holds
aggressiveScoreUngated(v, g, row, col, currentPlayer, baseMode, k) ==
    explosionScore(v, g, row, col, currentPlayer, TRUE)
    - enemyNeighborPenalty(g, row, col, currentPlayer, baseMode, k)
    + enemyProximityScore(g, row, col, currentPlayer, baseMode)
    + placementStrategyScore(v, g, row, col, currentPlayer)

\* 3. aggressive scoring
aggressiveScore(v, g, row, col, currentPlayer, baseMode, k) ==
    explosionScore(v, g, row, col, currentPlayer, willExplode(g, row, col))
    - enemyNeighborPenalty(g, row, col, currentPlayer, baseMode, k)
    + enemyProximityScore(g, row, col, currentPlayer, baseMode)
    + placementStrategyScore(v, g, row, col, currentPlayer)

\* a base threat scoring whose explosion bonus is 120 for every enemy HQ
baseThreatScoreHigh(g, row, col, currentPlayer, baseMode, hq) ==
    IF baseMode /\ hq.defined
    THEN SumSeq([i \in DOMAIN hq.items |->
                   LET distanceToHQ == Manhattan(hq.items[i].row, hq.items[i].col, row, col)
                   IN  IF hq.items[i].player # currentPlayer /\ distanceToHQ <= 3
                       THEN Points((4 - distanceToHQ) * 20)
                            + (IF willExplode(g, row, col) /\ distanceToHQ <= 2
                               THEN Points(IF hq.items[i].player # currentPlayer
                                           THEN 120 ELSE 40)
                               ELSE 0)
                       ELSE 0])
    ELSE 0

\* 4. base threat scoring; explosionBonus is
\* hq.player === currentPlayer ? 120 : 40 in aiPlayer.ts and 40 in part_000,
\* which leaves the two builds with the same sub-score
baseThreatScore(g, row, col, currentPlayer, baseMode, hq) ==
    IF baseMode /\ hq.defined
    THEN SumSeq([i \in DOMAIN hq.items |->
                   LET distanceToHQ == Manhattan(hq.items[i].row, hq.items[i].col, row, col)
                   IN  IF hq.items[i].player # currentPlayer /\ distanceToHQ <= 3
                       THEN Points((4 - distanceToHQ) * 20)
                            + (IF willExplode(g, row, col) /\ distanceToHQ <= 2
                               THEN Points(IF hq.items[i].player = currentPlayer
                                           THEN 120 ELSE 40)
                               ELSE 0)
                       ELSE 0])
    ELSE 0

\* the defensive score before the health of the base is looked at
defensiveResponse(g, row, col, currentPlayer, ourHQ) ==
    LET W == Window(g, ourHQ.row, ourHQ.col, 3)
        threats == { x \in W : enemyCell(g[x[1]][x[2]], currentPlayer) }
        threatDistance(x) == Manhattan(x[1], x[2], ourHQ.row, ourHQ.col)
        enemyThreatNearBase ==
            SumOver([x \in threats |->
                       g[x[1]][x[2]].atoms * Max(1, 4 - threatDistance(x)) * 8], threats)
        criticalThreats ==
            SumOver([x \in threats |->
                       IF threatDistance(x) <= 2 /\ g[x[1]][x[2]].atoms >= 2
                       THEN g[x[1]][x[2]].atoms * 15 ELSE 0], threats)
        distanceToOurHQ == Manhattan(ourHQ.row, ourHQ.col, row, col)
    IN  IF enemyThreatNearBase > 0
        THEN Points(enemyThreatNearBase * (5 - Min(distanceToOurHQ, 4)) * 2)
             + (IF criticalThreats > 0 /\ distanceToOurHQ <= 3
                THEN Points(criticalThreats * 3) ELSE 0)
             + (IF enemyCell(g[row][col], currentPlayer) THEN Points(40) ELSE 0)
             + (IF distanceToOurHQ <= 2 THEN Points(30) ELSE 0)
        ELSE 0

\* a defensive score that is doubled only below the health 2
defensiveOfBelow(response, ourHQ) ==
    IF ourHQ.health < 2 THEN 2 * response ELSE response

\* if (ourHQ.health <= 2) evaluation.defensiveScore *= 2
defensiveOf(response, ourHQ) ==
    IF ourHQ.health <= 2 THEN 2 * response ELSE response

\* 5. defensive scoring
defensiveScore(g, row, col, currentPlayer, baseMode, hq) ==
    LET found == IF baseMode /\ hq.defined THEN playerHQScan(hq, currentPlayer) ELSE 0
    IN  IF found = 0 THEN 0
        ELSE defensiveOf(defensiveResponse(g, row, col, currentPlayer, hq.items[found]),
                         hq.items[found])

\* the evaluation and what the call leaves of the caller's grid
strategicCall(v, g, row, col, currentPlayer, baseMode, hq, pu, k) ==
    LET chain == chainReactionCall(g, row, col, currentPlayer)
    IN  [input |-> chain.input,
         sub |-> [aggressiveScore |->
                      aggressiveScore(v, g, row, col, currentPlayer, baseMode, k),
                  defensiveScore |->
                      defensiveScore(g, row, col, currentPlayer, baseMode, hq),
                  powerUpScore |-> powerUpScore(v, row, col, baseMode, pu),
                  chainReactionScore |-> Points(chain.value * 10),
                  territoryScore |->
                      territoryScore(g, row, col, currentPlayer, baseMode, k),
                  baseThreatScore |->
                      baseThreatScore(g, row, col, currentPlayer, baseMode, hq)]]

evaluateStrategicMove(v, g, row, col, currentPlayer, baseMode, hq, pu, k) ==
    strategicCall(v, g, row, col, currentPlayer, baseMode, hq, pu, k).sub

(***************************************************************************)
(* evaluateMove.  Traits and scores are in hundredths, a product of two of *)
(* them is brought back to hundredths.                                     *)
(***************************************************************************)
Times(a, b) == (a * b) \div 100

\* the full-board evaluation of the call with row = col = -1
boardEvaluation(g, currentPlayer) ==
    LET own == { x \in Coords(RowsOf(g), ColsOf(g)) : g[x[1]][x[2]].player = currentPlayer }
    IN  Points(SumOver([x \in own |-> g[x[1]][x[2]].atoms * 10], own))

\* gameState.hqs.find(hq => hq.player === personality.targetEnemy), 0 when
\* the search is not made
targetHQScan(baseMode, hq, personality) ==
    IF baseMode /\ hq.defined /\ personality.targetEnemy # Null
    THEN playerHQScan(hq, personality.targetEnemy)
    ELSE 0

\* the weighted sum of aiPlayer.ts
baseScoreRival(sub, bonus, p) ==
    Times(sub.powerUpScore, Max(100, p.powerUpHunting))
    + (Times(sub.aggressiveScore, p.aggressiveness) * 25) \div 10
    + Times(Times(sub.baseThreatScore, p.aggressiveness), p.baseHuntingThirst) * 2
    + Times(sub.defensiveScore, p.defensiveness) * 2
    + Times(Times(sub.territoryScore, p.territorialness), p.cornerPreference) \div 2
    + (Times(sub.chainReactionScore, p.baseHuntingThirst) * 13) \div 10
    + bonus

\* the weighted sum of part_000
baseScoreSimple(sub, p) ==
    (Times(sub.powerUpScore, p.powerUpHunting) * 18) \div 10
    + (Times(Times(sub.territoryScore, p.territorialness), p.cornerPreference) * 8) \div 10
    + Times(sub.defensiveScore, p.defensiveness) * 2
    + (Times(sub.aggressiveScore, p.aggressiveness) * 15) \div 10
    + (Times(Times(sub.baseThreatScore, p.aggressiveness), p.riskTaking) * 12) \div 10
    + (Times(sub.chainReactionScore, p.riskTaking) * 13) \div 10

\* the two random terms, scaled by the trait the build uses for them
withRandomness(baseScore, trait, k) ==
    LET \* (Math.random() - 0.5) * 2
        jitter == (200 * k) \div (MaxDraw + 1) - 100
        randomness == Times(jitter, Times(trait, 30))
        shaken == baseScore + Times(randomness, Max(Points(15), Abs(baseScore) \div 5))
    IN  shaken + Times((jitter * 25) \div 2, trait)

\* evaluateMove from the evaluation on: the target, the weights, the noise
scoreOf(v, strategic, row, col, found, hq, p, k) ==
    LET targetHQ == hq.items[found]
        distanceToTarget == Manhattan(targetHQ.row, targetHQ.col, row, col)
        \* if (targetHQ.player === personality.targetEnemy)
        \*   evaluation.baseThreatScore *= 2
        sub == IF v = "rival" /\ found # 0 /\ targetHQ.player = p.targetEnemy
               THEN [strategic.sub EXCEPT !.baseThreatScore = 2 * @]
               ELSE strategic.sub
        \* targetEnemyBonus
        bonus == IF v = "rival" /\ found # 0 /\ distanceToTarget <= 3
                 THEN (4 - distanceToTarget) * 50 * p.baseHuntingThirst
                 ELSE 0
    IN  [input |-> strategic.input, sub |-> sub, bonus |-> bonus,
         value |-> IF v = "rival"
                   THEN withRandomness(baseScoreRival(sub, bonus, p), p.baseHuntingThirst, k)
                   ELSE withRandomness(baseScoreSimple(sub, p), p.riskTaking, k)]

\* evaluateMove with what it leaves of the caller's grid; p is the result of
\* getPersonality(currentPlayer)
evaluateMoveCall(v, g, row, col, currentPlayer, baseMode, hq, pu, p, k) ==
    IF v = "rival" /\ row = -1 /\ col = -1
    THEN [input |-> g, sub |-> NoEvaluation, bonus |-> 0,
          value |-> boardEvaluation(g, currentPlayer)]
    ELSE scoreOf(v, strategicCall(v, g, row, col, currentPlayer, baseMode, hq, pu, k),
                 row, col, targetHQScan(baseMode, hq, p), hq, p, k)

evaluateMove(v, g, row, col, currentPlayer, baseMode, hq, pu, p, k) ==
    evaluateMoveCall(v, g, row, col, currentPlayer, baseMode, hq, pu, p, k).value

(***************************************************************************)
(* The evaluator called on its own, for RED, on the cells getValidMoves    *)
(* returns.  Three-by-three boards on which RED owns at most one cell, of  *)
(* one or three atoms and in the middle column, and BLUE at most one cell, *)
(* of one or two atoms; HQ lists                                           *)
(* with the RED base at (1,0), the BLUE base at (2,2) and the ORANGE base  *)
(* at (0,2), each of them present or not; no power-up or one at (1,1).     *)
(***************************************************************************)
CallEvaluateStrategicMove(row, col, player, k) ==
    LET e == strategicCall(variant, grid, row, col, player, isBaseMode, hqs, powerUps, k)
    IN  /\ grid' = e.input
        /\ last' = [NoCall EXCEPT !.op = "evaluateStrategicMove", !.player = player,
                                  !.row = row, !.col = col, !.sub = e.sub]
        /\ UNCHANGED <<board, variant, isBaseMode, hqs, powerUps, personalities>>

EvaluateMoveWith(row, col, player, table, k) ==
    LET e == evaluateMoveCall(variant, grid, row, col, player, isBaseMode, hqs,
                              powerUps, table[player], k)
    IN  /\ grid' = e.input
        /\ personalities' = table
        /\ last' = [NoCall EXCEPT !.op = "evaluateMove", !.player = player,
                                  !.row = row, !.col = col,
                                  !.sub = e.sub, !.bonus = e.bonus, !.value = e.value,
                                  !.generated = ~personalities[player].present,
                                  !.traits = table[player]]
        /\ UNCHANGED <<board, variant, isBaseMode, hqs, powerUps>>

\* getPersonality(currentPlayer) runs after evaluateStrategicMove has returned
CallEvaluateMove(row, col, player) ==
    \E d \in DrawVectors :
        EvaluateMoveWith(row, col, player,
                         storeAfterGet(personalities, variant, player, d), d[1])

\* getAIMove with the values evaluateMove returns for the candidates, brought
\* down to whole points; the draws of one call are taken at the same level
CallGetAIMoveScored(player) ==
    \E d \in DrawVectors, draw \in Levels :
        LET table == storeAfterGet(personalities, variant, player, d)
            moves == getValidMoves(grid, player, isBaseMode, hqs).moves
            sc == SubSeq([i \in DOMAIN moves |->
                            evaluateMove(variant, grid, moves[i].row, moves[i].col, player,
                                         isBaseMode, hqs, powerUps, table[player], d[1])
                                \div 100],
                         1, Len(moves))
        IN  /\ personalities' = table
            /\ last' = Answer(player,
                              getAIMove(bestMoveOf(variant, grid, player, isBaseMode,
                                                   hqs, powerUps, sc, draw,
                                                   table[player].riskTaking)),
                              ~personalities[player].present,
                              table[player])
            /\ UNCHANGED <<board, variant, grid, isBaseMode, hqs, powerUps>>

InitEval ==
    /\ variant \in Variants
    /\ grid \in { g \in Grids(3, 3, {1, 2, 3}) :
                     /\ Cardinality(OwnedBy(g, 3, 3, "RED")) <= 1
                     /\ Cardinality(OwnedBy(g, 3, 3, "BLUE")) <= 1
                     /\ \A x \in Coords(3, 3) :
                           /\ g[x[1]][x[2]].player = "RED" =>
                                 g[x[1]][x[2]].atoms # 2 /\ x[2] = 1
                           /\ g[x[1]][x[2]].player = "BLUE" => g[x[1]][x[2]].atoms # 3 }
    /\ \/ /\ isBaseMode = FALSE
          /\ hqs = Undefined
          /\ powerUps = Undefined
       \/ /\ isBaseMode = TRUE
          /\ hqs \in { Some(own \o blue \o orange) :
                         own \in { << >>, <<HQCell(1, 0, "RED", 2)>>,
                                   <<HQCell(1, 0, "RED", 3)>> },
                         blue \in { << >>, <<HQCell(2, 2, "BLUE", 3)>> },
                         orange \in { << >>, <<HQCell(0, 2, "ORANGE", 3)>> } }
          /\ powerUps \in { Undefined, Some(<<PowerUpCell(1, 1, "diamond")>>) }
    /\ personalities = NoPersonalities
    /\ last = NoCall
    /\ IdleBoard

\* one call on each input: of the evaluator for a cell that is legal for RED,
\* or of getAIMove
NextEval ==
    /\ last.op = "none"
    /\ \/ \E x \in Coords(RowsOf(grid), ColsOf(grid)) :
             /\ isValidMoveForAI(grid, x[1], x[2], "RED", isBaseMode, hqs) = Ret(TRUE)
             /\ \/ \E k \in Levels : CallEvaluateStrategicMove(x[1], x[2], "RED", k)
                \/ CallEvaluateMove(x[1], x[2], "RED")
       \/ CallGetAIMoveScored("RED")

SpecEval == InitEval /\ [][NextEval]_vars

(***************************************************************************)
(* Claims about evaluateStrategicMove and evaluateMove, checked under      *)
(* SpecEval.                                                               *)
(***************************************************************************)
Scored == last.op = "evaluateStrategicMove"

\* C14: in classic mode on the three-by-three board where RED holds (1,1)
\* with three atoms and BLUE holds (0,0) with one, (1,1) is legal for RED and
\* the aggressive sub-score of RED's placement at (1,1) is positive.
C14_ExampleScoresPositive ==
    (/\ ~isBaseMode
     /\ grid = MkGrid(3, 3, {<<1, 1>>, <<0, 0>>},
                      [x \in {<<1, 1>>, <<0, 0>>} |->
                         IF x = <<1, 1>> THEN [player |-> "RED", atoms |-> 3]
                         ELSE [player |-> "BLUE", atoms |-> 1]])
     /\ Scored /\ last.player = "RED" /\ last.row = 1 /\ last.col = 1) =>
        /\ Legal(1, 1, "RED")
        /\ last.sub.aggressiveScore > 0

\* the enemy-owned cells of the window of radius n around the placement
EnemiesAround(n) ==
    { x \in Window(grid, last.row, last.col, n) :
        enemyCell(grid[x[1]][x[2]], last.player) }

\* no enemy-owned cell is the target or next to it and, in HQ mode, none lies
\* in the five-by-five window around it
Quiet ==
    /\ ~enemyCell(grid[last.row][last.col], last.player)
    /\ enemyNeighbors(grid, last.row, last.col, last.player) = << >>
    /\ isBaseMode => EnemiesAround(2) = {}

\* C17 as stated: a placement that does not bring the cell to its critical
\* mass has the aggressive sub-score 0.
C17_ZeroBelowCriticalMass ==
    (Scored /\ ~willExplode(grid, last.row, last.col)) => last.sub.aggressiveScore = 0

\* C17: a placement that does not bring the cell to its critical mass has the
\* aggressive sub-score 0 when no enemy-owned cell is the target or an
\* orthogonal neighbour of it and, in HQ mode, none lies in the five-by-five
\* window around it.
C17_ZeroBelowCriticalMassWhenQuiet ==
    (Scored /\ ~willExplode(grid, last.row, last.col) /\ Quiet) =>
        last.sub.aggressiveScore = 0

\* C17 witness: classic mode, below the critical mass, an enemy cell on the
\* board but not next to the placement.
C17_Witness ==
    /\ Scored /\ ~isBaseMode /\ ~willExplode(grid, last.row, last.col) /\ Quiet
    /\ EnemiesAround(2) # {}
    /\ last.sub.aggressiveScore = 0

\* C18: evaluateMove of aiPlayer.ts weighs twice the base-threat sub-score when
\* the move is within distance 3 of the HQ of the chosen target, and the
\* base-threat sub-score as evaluateStrategicMove returned it otherwise.
C18_DoubledOnlyNearTarget ==
    (last.op = "evaluateMove" /\ variant = "rival") =>
        LET targetHQ == targetHQScan(isBaseMode, hqs, last.traits)
            threatensTarget ==
                /\ targetHQ # 0
                /\ Manhattan(hqs.items[targetHQ].row, hqs.items[targetHQ].col,
                             last.row, last.col) <= 3
        IN  last.sub.baseThreatScore =
                (IF threatensTarget THEN 2 ELSE 1)
                * baseThreatScore(grid, last.row, last.col, last.player, isBaseMode, hqs)

\* the HQ of the player, 0 if the list has none or the mode is classic
OwnHQ == IF isBaseMode /\ hqs.defined THEN playerHQScan(hqs, last.player) ELSE 0

\* the defensive sub-score of the call had the own HQ the health h
DefensiveAtHealth(h) ==
    defensiveScore(grid, last.row, last.col, last.player, isBaseMode,
                   [hqs EXCEPT !.items[OwnHQ].health = h])

\* C19: the defensive sub-score at a health of the own HQ of 2 or less is twice
\* the one at a health above 2, all else equal; it is 0 in classic mode, when
\* the player has no HQ, and when no enemy-owned cell with atoms lies in the
\* window of radius 3 around the player's HQ.
C19_DefensiveDoubledAtLowHealth ==
    Scored =>
        /\ OwnHQ # 0 =>
              /\ \A lo \in 0..2, hi \in 3..5 :
                    DefensiveAtHealth(lo) = 2 * DefensiveAtHealth(hi)
              /\ last.sub.defensiveScore = DefensiveAtHealth(hqs.items[OwnHQ].health)
        /\ (\/ OwnHQ = 0
            \/ \A x \in Window(grid, hqs.items[OwnHQ].row, hqs.items[OwnHQ].col, 3) :
                  ~(enemyCell(grid[x[1]][x[2]], last.player) /\ grid[x[1]][x[2]].atoms > 0))
              => last.sub.defensiveScore = 0

\* C19 witness: a base of health 2 with an enemy cell near it.
C19_Witness ==
    /\ Scored /\ OwnHQ # 0 /\ hqs.items[OwnHQ].health = 2
    /\ \E x \in Window(grid, hqs.items[OwnHQ].row, hqs.items[OwnHQ].col, 3) :
          enemyCell(grid[x[1]][x[2]], last.player) /\ grid[x[1]][x[2]].atoms > 0
    /\ last.sub.defensiveScore > 0
    /\ last.sub.defensiveScore = 2 * DefensiveAtHealth(3)

(***************************************************************************)
(* minimax.  A call returns its value together with the number of depth-0  *)
(* evaluations made below it, the number of plies of the deepest recursion *)
(* below it, the largest number of valid moves met at a node, and what the *)
(* search left of the caller's grid.  gameState.hqs is well formed.        *)
(***************************************************************************)
Infinity == 1000000000

\* a rotation between the two players of the board
getNextPlayerOfTwo(current) ==
    CASE current = "RED" -> "BLUE"
      [] current = "BLUE" -> "RED"
      [] current = "ORANGE" -> "BLACK"
      [] current = "BLACK" -> "RED"

getNextPlayer(current) ==
    CASE current = "RED" -> "BLUE"
      [] current = "BLUE" -> "ORANGE"
      [] current = "ORANGE" -> "BLACK"
      [] current = "BLACK" -> "RED"

RECURSIVE minimaxNode(_, _, _, _, _, _, _, _, _)
RECURSIVE minimaxLoop(_, _, _, _, _, _, _, _, _, _, _)

\* the loop body that leaves the loop before the child's value is taken in
minimaxAfterChildEarly(moves, i, depth, isMaximizing, alpha, beta, currentPlayer, baseMode, hq, acc, input, child, prune) ==
    LET a == IF isMaximizing THEN Max(alpha, child.value) ELSE alpha
        b == IF isMaximizing THEN beta ELSE Min(beta, child.value)
        next == [value  |-> IF isMaximizing THEN Max(acc.value, child.value)
                            ELSE Min(acc.value, child.value),
                 leaves |-> acc.leaves + child.leaves,
                 plies  |-> Max(acc.plies, 1 + child.plies),
                 width  |-> Max(acc.width, child.width),
                 evaluated |-> acc.evaluated \cup child.evaluated,
                 input  |-> input]
    IN  IF prune /\ b <= a THEN [next EXCEPT !.value = acc.value]
        ELSE minimaxLoop(moves, i + 1, depth, isMaximizing, a, b, currentPlayer,
                         baseMode, hq, next, prune)

\* the loop body once the recursive call on newGrid has returned child; input
\* is the caller's grid after simulateMove.  prune tells whether the two
\* statements `if (beta <= alpha) break` are part of the function: they are
\* in minimax, and they are not in the plain recursion it is compared with
minimaxAfterChild(moves, i, depth, isMaximizing, alpha, beta, currentPlayer, baseMode, hq, acc, input, child, prune) ==
    LET a == IF isMaximizing THEN Max(alpha, child.value) ELSE alpha
        b == IF isMaximizing THEN beta ELSE Min(beta, child.value)
        next == [value  |-> IF isMaximizing THEN Max(acc.value, child.value)
                            ELSE Min(acc.value, child.value),
                 leaves |-> acc.leaves + child.leaves,
                 plies  |-> Max(acc.plies, 1 + child.plies),
                 width  |-> Max(acc.width, child.width),
                 evaluated |-> acc.evaluated \cup child.evaluated,
                 input  |-> input]
    IN  IF prune /\ b <= a THEN next
        ELSE minimaxLoop(moves, i + 1, depth, isMaximizing, a, b, currentPlayer,
                         baseMode, hq, next, prune)

\* the loop body once simulateMove has returned sim
minimaxAfterSimulate(moves, i, depth, isMaximizing, alpha, beta, currentPlayer, baseMode, hq, acc, sim, prune) ==
    minimaxAfterChild(moves, i, depth, isMaximizing, alpha, beta, currentPlayer,
                      baseMode, hq, acc, sim.input,
                      minimaxNode(sim.grid, depth - 1, ~isMaximizing, alpha, beta,
                                  getNextPlayer(currentPlayer), baseMode, hq, prune),
                      prune)

\* for (const move of validMoves), from the i-th move on
minimaxLoop(moves, i, depth, isMaximizing, alpha, beta, currentPlayer, baseMode, hq, acc, prune) ==
    IF i > Len(moves) THEN acc
    ELSE minimaxAfterSimulate(moves, i, depth, isMaximizing, alpha, beta,
                              currentPlayer, baseMode, hq, acc,
                              simulateMove(acc.input, moves[i].row, moves[i].col,
                                           currentPlayer),
                              prune)

\* a search that evaluates the board of a player who has no move
minimaxOverEvaluated(moves, g, depth, isMaximizing, alpha, beta, currentPlayer, baseMode, hq, prune) ==
    IF Len(moves) = 0
    THEN [value  |-> boardEvaluation(g, currentPlayer),
          leaves |-> 0, plies |-> 0, width |-> 0, evaluated |-> {}, input |-> g]
    ELSE minimaxLoop(moves, 1, depth, isMaximizing, alpha, beta, currentPlayer, baseMode, hq,
                     [value  |-> IF isMaximizing THEN -Infinity ELSE Infinity,
                      leaves |-> 0, plies |-> 0, width |-> Len(moves),
                      evaluated |-> {}, input |-> g],
                     prune)

\* minimax once getValidMoves has returned moves
minimaxOver(moves, g, depth, isMaximizing, alpha, beta, currentPlayer, baseMode, hq, prune) ==
    minimaxLoop(moves, 1, depth, isMaximizing, alpha, beta, currentPlayer, baseMode, hq,
                [value  |-> IF isMaximizing THEN -Infinity ELSE Infinity,
                 leaves |-> 0, plies |-> 0, width |-> Len(moves),
                 evaluated |-> {}, input |-> g],
                prune)

minimaxNode(g, depth, isMaximizing, alpha, beta, currentPlayer, baseMode, hq, prune) ==
    IF depth = 0
    THEN LET value == evaluateMove("rival", g, -1, -1, currentPlayer, baseMode, hq,
                                   Undefined, NoPersonality, 0)
         IN  [value  |-> value, leaves |-> 1, plies |-> 0, width |-> 0,
              evaluated |-> {[grid |-> g, player |-> currentPlayer, value |-> value]},
              input |-> g]
    ELSE minimaxOver(getValidMoves(g, currentPlayer, baseMode, hq).moves,
                     g, depth, isMaximizing, alpha, beta, currentPlayer, baseMode, hq,
                     prune)

\* a search that stops one ply later
minimaxDeeper(g, depth, isMaximizing, alpha, beta, currentPlayer, baseMode, hq) ==
    minimaxNode(g, depth + 1, isMaximizing, alpha, beta, currentPlayer, baseMode, hq, TRUE)

minimax(g, depth, isMaximizing, alpha, beta, currentPlayer, baseMode, hq) ==
    minimaxNode(g, depth, isMaximizing, alpha, beta, currentPlayer, baseMode, hq, TRUE)

\* the recursion of minimax without its two break statements
minimaxPlain(g, depth, isMaximizing, alpha, beta, currentPlayer, baseMode, hq) ==
    minimaxNode(g, depth, isMaximizing, alpha, beta, currentPlayer, baseMode, hq, FALSE)

(***************************************************************************)
(* The look-ahead: every function that is handed the host's grid, called   *)
(* on two-by-two boards with at most two owned cells, in classic mode and  *)
(* in HQ mode with the RED base at (0,0) and the BLUE base at (1,1).       *)
(***************************************************************************)
SearchDepths == 0..3

MinimaxWith(player, depth, isMaximizing, r) ==
    /\ grid' = r.input
    /\ last' = [NoCall EXCEPT !.op = "minimax", !.player = player, !.depth = depth,
                              !.isMaximizing = isMaximizing, !.value = r.value,
                              !.leaves = r.leaves, !.plies = r.plies,
                              !.width = r.width, !.evaluated = r.evaluated]
    /\ UNCHANGED <<board, variant, isBaseMode, hqs, powerUps, personalities>>

\* a search started with alpha = -Infinity and beta = Infinity
CallMinimax(player, depth, isMaximizing) ==
    MinimaxWith(player, depth, isMaximizing,
                minimax(grid, depth, isMaximizing, -Infinity, Infinity, player,
                        isBaseMode, hqs))

InitSearch ==
    /\ variant = "rival"
    /\ grid \in Grids(2, 2, {1, 2})
    /\ \/ /\ isBaseMode = FALSE
          /\ hqs = Undefined
       \/ /\ isBaseMode = TRUE
          /\ hqs \in { Undefined,
                       Some(<<HQCell(0, 0, "RED", 3), HQCell(1, 1, "BLUE", 3)>>) }
    /\ powerUps = Undefined
    /\ personalities = NoPersonalities
    /\ last = NoCall
    /\ IdleBoard

\* one call on each input
NextSearch ==
    /\ last.op = "none"
    /\ \E player \in BoardPlayers :
          \/ \E depth \in SearchDepths, isMaximizing \in BOOLEAN :
                CallMinimax(player, depth, isMaximizing)
          \/ \E x \in Coords(RowsOf(grid), ColsOf(grid)) :
                \/ CallSimulateMove(x[1], x[2], player)
                \/ CallCalculateChainReactionPotential(x[1], x[2], player)
                \/ /\ isValidMoveForAI(grid, x[1], x[2], player, isBaseMode, hqs) = Ret(TRUE)
                   /\ CallEvaluateMove(x[1], x[2], player)
          \/ CallGetAIMove(player)

SpecSearch == InitSearch /\ [][NextSearch]_vars

(***************************************************************************)
(* Claims about the look-ahead, checked under SpecSearch.                  *)
(***************************************************************************)
\* C12: no function of the engine that is handed the host's grid changes the
\* owner or the atom count of any of its cells, and the grid simulateMove
\* returns shares no cell object with its argument.
C12_HostGridUntouched ==
    [][ /\ grid' = grid
        /\ last'.op = "simulateMove" => last'.shared = 0 ]_vars

\* C12 witness: simulateMove has returned on a board with an owned cell.
C12_Witness ==
    /\ last.op = "simulateMove"
    /\ last.shared = 0
    /\ \E x \in Coords(RowsOf(grid), ColsOf(grid)) : grid[x[1]][x[2]].player # Null
    /\ simulateMove(grid, last.row, last.col, last.player).grid # grid

RECURSIVE Power(_, _)
Power(b, n) == IF n = 0 THEN 1 ELSE b * Power(b, n - 1)

\* C15: a minimax call with depth 3 returns after at most b^3 depth-0
\* evaluations, b being the largest number of valid moves at a node of the
\* search, and its recursion is at most 3 plies deep; likewise for the
\* smaller depths.
C15_SearchBounded ==
    \A d \in SearchDepths :
        (last.op = "minimax" /\ last.depth = d) =>
            /\ last.leaves <= Power(last.width, d)
            /\ last.plies <= d

\* C15 witness: a search of depth 3 that went 3 plies deep, made more than one
\* depth-0 evaluation and was cut short by a prune.
C15_Witness ==
    /\ last.op = "minimax" /\ last.depth = 3
    /\ last.plies = 3
    /\ last.leaves > 1
    /\ last.leaves < Power(last.width, 3)

(***************************************************************************)
(* The emergency defence of getBestMove, observed through the candidate    *)
(* list: as the first sort leaves it, and as it is when the selection is   *)
(* made.  Two-by-three boards, with the RED base at (0,0), with an HQ list *)
(* that holds no base, and without an HQ list.                             *)
(***************************************************************************)
\* the answer of getAIMove with the two lists, when the call came to score
\* its candidates: sorted, and validMoves when bestMoveIndex is drawn
Ranking(answer, sorted, g, player, baseMode, hq) ==
    LET found == IF baseMode /\ hq.defined THEN playerHQScan(hq, player) ELSE 0
    IN  IF answer.path \in {"topk", "emergency"}
        THEN [answer EXCEPT
                 !.unranked = sorted,
                 !.ranked = IF found # 0 /\ criticalThreat(g, player, hq.items[found])
                            THEN SortByScore(withDefenseBonus(sorted, hq.items[found]))
                            ELSE sorted]
        ELSE answer

RankedWith(player, table) ==
    \E draw \in Levels :
    \E sc \in [1..ScoresNeeded(variant, grid, player, isBaseMode, hqs, powerUps,
                               table[player].riskTaking) -> ScoreSet] :
        /\ personalities' = table
        /\ last' = Ranking(Answer(player,
                                  getAIMove(bestMoveOf(variant, grid, player, isBaseMode,
                                                       hqs, powerUps, sc, draw,
                                                       table[player].riskTaking)),
                                  ~personalities[player].present,
                                  table[player]),
                           SortByScore(withScores(
                               getValidMoves(grid, player, isBaseMode, hqs).moves, sc)),
                           grid, player, isBaseMode, hqs)
        /\ UNCHANGED <<board, variant, grid, isBaseMode, hqs, powerUps>>

CallGetAIMoveRanked(player) ==
    \E d \in DrawVectors :
        RankedWith(player, storeAfterGet(personalities, variant, player, d))

InitRank ==
    /\ variant = "rival"
    /\ grid \in Grids(2, 3, {1, 2})
    /\ isBaseMode = TRUE
    /\ hqs \in { Undefined, Some(<< >>), Some(<<HQCell(0, 0, "RED", 3)>>) }
    /\ powerUps = Undefined
    /\ personalities = NoPersonalities
    /\ last = NoCall
    /\ IdleBoard

\* one call on each input
NextRank ==
    /\ last.op = "none"
    /\ \E player \in BoardPlayers : CallGetAIMoveRanked(player)

SpecRank == InitRank /\ [][NextRank]_vars

(***************************************************************************)
(* Claims about the emergency defence, checked under SpecRank.             *)
(***************************************************************************)
\* an enemy-owned cell of at least two atoms in the window of radius 2 around
\* the player's HQ
BaseUnderThreat ==
    /\ OwnHQ # 0
    /\ \E x \in Window(grid, hqs.items[OwnHQ].row, hqs.items[OwnHQ].col, 2) :
          enemyCell(grid[x[1]][x[2]], last.player) /\ grid[x[1]][x[2]].atoms >= 2

NearBase(m) ==
    Manhattan(m.row, m.col, hqs.items[OwnHQ].row, hqs.items[OwnHQ].col) <= 2

\* C20: with an enemy-owned cell of at least 2 atoms in the window of radius 2
\* around the player's HQ, getBestMove adds 2000 to the candidates within
\* Manhattan distance 2 of that HQ and to no other, and draws from the list
\* sorted by descending score again; without such a cell the scores and the
\* list stay as the first sort left them.
C20_EmergencyBonus ==
    (Answered /\ last.path \in {"topk", "emergency"}) =>
        /\ Len(last.ranked) = Len(last.unranked)
        /\ \A k \in DOMAIN last.unranked :
              \E j \in DOMAIN last.ranked :
                  /\ last.ranked[j].row = last.unranked[k].row
                  /\ last.ranked[j].col = last.unranked[k].col
                  /\ last.ranked[j].score =
                        last.unranked[k].score
                        + (IF BaseUnderThreat /\ NearBase(last.unranked[k])
                           THEN EmergencyBonus ELSE 0)
        /\ \A i, j \in DOMAIN last.ranked :
              i < j => last.ranked[i].score >= last.ranked[j].score
        /\ ~BaseUnderThreat => last.ranked = last.unranked
        /\ last.ranked[last.pick + 1].row = last.row
        /\ last.ranked[last.pick + 1].col = last.col
        /\ last.ranked[last.pick + 1].score = last.score

\* C20 witness: the bonus lifts a candidate near the base over one that is
\* farther than 2 from it and came first.
C20_Witness ==
    /\ Answered /\ last.path \in {"topk", "emergency"} /\ BaseUnderThreat
    /\ \E k \in DOMAIN last.unranked : ~NearBase(last.unranked[k])
    /\ ~NearBase(last.unranked[1])
    /\ NearBase(last.ranked[1])
    /\ last.ranked[1].score = last.unranked[Len(last.unranked)].score + EmergencyBonus

(***************************************************************************)
(* Claims about the draw among the first candidates, checked under         *)
(* SpecMove.                                                               *)
(***************************************************************************)
\* C21: when getBestMove draws among the first candidates of the sorted list
\* for a personality whose traits are all at the minimum of their ranges, it
\* returns the first candidate, whatever the number of legal moves.  Stated
\* for both builds of the engine.
C21_ConservativePicksTop ==
    (/\ Answered /\ last.path = "topk"
     /\ last.traits = freshPersonality(variant, last.player, [i \in 1..9 |-> 0]))
        => last.pick = 0

(***************************************************************************)
(* Claims about the sub-scores of a legal placement, checked under         *)
(* SpecEval.                                                               *)
(***************************************************************************)
\* C22: in classic mode the territory sub-score of a placement is greater than
\* the one any placement of a lower band (corner above edge above interior)
\* with the same own-neighbour status receives, at every level of its draws.
C22_BandsOrdered ==
    (Scored /\ ~isBaseMode) =>
        LET band(row, col) ==
                IF (row \in {0, RowsOf(grid) - 1}) /\ (col \in {0, ColsOf(grid) - 1}) THEN 2
                ELSE IF (row \in {0, RowsOf(grid) - 1}) \/ (col \in {0, ColsOf(grid) - 1}) THEN 1
                ELSE 0
            hasOwnNeighbor(row, col) ==
                \E x \in Coords(RowsOf(grid), ColsOf(grid)) :
                    /\ Manhattan(x[1], x[2], row, col) = 1
                    /\ grid[x[1]][x[2]].player = last.player
        IN  \A x \in Coords(RowsOf(grid), ColsOf(grid)), k \in Levels :
                (/\ band(last.row, last.col) > band(x[1], x[2])
                 /\ hasOwnNeighbor(last.row, last.col) = hasOwnNeighbor(x[1], x[2]))
                    => last.sub.territoryScore
                          > territoryScore(grid, x[1], x[2], last.player, FALSE, k)

\* C23: a move that getBestMove of aiPlayer.ts returns from the draw among the
\* sorted candidates, with or without the emergency bonus, carries a score of
\* at most 10000, the score of the power-up override.
C23_OverrideScoreIsMaximal ==
    (Answered /\ variant = "rival" /\ last.path \in {"topk", "emergency"})
        => last.score <= PowerUpOverrideScore

\* C29: every candidate getBestMove hands to evaluateMove is a cell that is
\* unclaimed or owned by the player, and so is the cell of every call of
\* evaluateMove and evaluateStrategicMove made for a candidate: the tests
\* `cell.player && cell.player !== currentPlayer` of the placement penalty
\* and of the reclaiming bonus are false on it.
C29_CandidatesAreNotEnemyCells ==
    /\ (Answered /\ last.path \in {"topk", "emergency"}) =>
          LET moves == getValidMoves(grid, last.player, isBaseMode, hqs).moves
          IN  /\ last.count = Len(moves)
              /\ \A k \in DOMAIN moves :
                    ~enemyCell(grid[moves[k].row][moves[k].col], last.player)
    /\ last.op \in {"evaluateStrategicMove", "evaluateMove"} =>
          ~enemyCell(grid[last.row][last.col], last.player)

\* C29 witness: on a board with a cell of the other player, getBestMove has
\* scored every cell but that one.
C29_Witness ==
    /\ Answered /\ last.path = "topk" /\ ~isBaseMode
    /\ \E x \in Coords(RowsOf(grid), ColsOf(grid)) :
          enemyCell(grid[x[1]][x[2]], last.player)
    /\ last.count = RowsOf(grid) * ColsOf(grid) - 1

C24_PruningKeepsRootValue ==
    last.op = "minimax" =>
        LET plain == minimaxPlain(grid, last.depth, last.isMaximizing, -Infinity,
                                  Infinity, last.player, isBaseMode, hqs)
        IN  /\ last.value = plain.value
            /\ last.leaves <= plain.leaves

\* C24 witness: a search of depth 3 in which a break has cut leaves off, with
\* a finite value at the root.
C24_Witness ==
    /\ last.op = "minimax" /\ last.depth = 3
    /\ last.value \notin {-Infinity, Infinity}
    /\ LET plain == minimaxPlain(grid, last.depth, last.isMaximizing, -Infinity,
                                 Infinity, last.player, isBaseMode, hqs)
       IN  last.leaves < plain.leaves /\ last.value = plain.value

\* C25: every depth-0 evaluation of a search started with depth d for the
\* player P is made for the player d steps after P in the cycle RED, BLUE,
\* ORANGE, BLACK, and its value is 10 times the atoms that player owns on the
\* evaluated grid; in a search of depth 3 none is made for P.
C25_LeafCountsRotatedPlayer ==
    last.op = "minimax" =>
        LET start == CHOOSE k \in 1..4 : PlayerOrder[k] = last.player
            rotated == PlayerOrder[((start - 1 + last.depth) % 4) + 1]
            material(g, p) ==
                SumSeq([k \in 1..(RowsOf(g) * ColsOf(g)) |->
                          LET c == g[(k - 1) \div ColsOf(g)][(k - 1) % ColsOf(g)]
                          IN  IF c.player = p THEN c.atoms ELSE 0])
        IN  /\ Cardinality(last.evaluated) <= last.leaves
            /\ last.leaves > 0 => last.evaluated # {}
            /\ \A e \in last.evaluated :
                  /\ e.player = rotated
                  /\ e.value = Points(10 * material(e.grid, rotated))
                  /\ last.depth = 3 => e.player # last.player

\* C25 witness: a search of depth 3 started for BLUE whose leaves count the
\* atoms of RED, and more than one of them.
C25_Witness ==
    /\ last.op = "minimax" /\ last.depth = 3 /\ last.player = "BLUE"
    /\ Cardinality(last.evaluated) > 1
    /\ \A e \in last.evaluated : e.player = "RED" /\ e.value > 0

\* C26: a search of depth above 0 for a player who has no legal placement
\* returns -Infinity when maximizing and Infinity when minimizing, without
\* any board evaluation; and when such a position follows one of the root
\* player's moves in a search of depth above 1, the root returns the infinite
\* value of that child: Infinity when maximizing, -Infinity when minimizing.
C26_NoMoveGivesInfinity ==
    (last.op = "minimax" /\ last.depth > 0) =>
        LET stuck(g, p) == getValidMoves(g, p, isBaseMode, hqs).moves = << >>
            moves == getValidMoves(grid, last.player, isBaseMode, hqs).moves
            after(m) == simulateMove(grid, m.row, m.col, last.player).grid
            own == IF last.isMaximizing THEN -Infinity ELSE Infinity
        IN  /\ stuck(grid, last.player) => last.value = own /\ last.leaves = 0
            /\ (/\ last.depth > 1
                /\ \E k \in DOMAIN moves : stuck(after(moves[k]), getNextPlayer(last.player)))
                   => last.value = -own

\* C26 witness: in a search of depth 2 the last of the root player's moves,
\* and no earlier one, leaves the next player without a placement, and the
\* root returns the infinite value.
C26_Witness ==
    /\ last.op = "minimax" /\ last.depth = 2 /\ last.isMaximizing
    /\ last.value = Infinity /\ last.leaves > 0
    /\ LET moves == getValidMoves(grid, last.player, isBaseMode, hqs).moves
           stuckAfter(m) ==
               getValidMoves(simulateMove(grid, m.row, m.col, last.player).grid,
                             getNextPlayer(last.player), isBaseMode, hqs).moves = << >>
       IN  /\ Len(moves) > 1
           /\ stuckAfter(moves[Len(moves)])
           /\ \A k \in 1..(Len(moves) - 1) : ~stuckAfter(moves[k])

(***************************************************************************)
(* Claims about the validator in HQ mode, checked under SpecValid.         *)
(***************************************************************************)
\* C27: in HQ mode, when the hqs argument is absent or holds no HQ of the
\* asking player, isValidMoveForAI does not throw and returns true for a cell
\* inside the grid exactly when the cell holds no HQ and is unclaimed or owned
\* by the asking player, whether or not the player owns atoms and wherever
\* they are.
C27_NoOwnHQNoRestriction ==
    (/\ Asked /\ isBaseMode /\ InGrid(last.row, last.col)
     /\ (~hqs.defined \/ HQsOf(last.player) = {}))
        => /\ ~last.threw
           /\ last.valid <=>
                 /\ HQsAt(last.row, last.col) = {}
                 /\ grid[last.row][last.col].player \in {Null, last.player}

\* C27 witness: the list holds an HQ, of the other player; the asking player
\* owns a dot; the cell is outside the row and the column of that HQ, away
\* from the dot, and accepted.
C27_Witness ==
    /\ Asked /\ isBaseMode /\ hqs.defined /\ hqs.items # << >>
    /\ HQsOf(last.player) = {} /\ OwnsDots(last.player)
    /\ Returned(TRUE)
    /\ \A i \in DOMAIN hqs.items :
          last.row # hqs.items[i].row /\ last.col # hqs.items[i].col
    /\ \A x \in Coords(RowsOf(grid), ColsOf(grid)) :
          grid[x[1]][x[2]].player = last.player
              => ~isAdjacentTo(last.row, last.col, x[1], x[2])

(***************************************************************************)
(* GameBoard.handleCellClick and its fallback timers.  A click schedules a *)
(* callback FallbackDelay milliseconds later; the event loop runs a        *)
(* callback when it is due, and time does not pass a due callback.  What   *)
(* the host's onCellClick does is outside this source.                     *)
(***************************************************************************)
FallbackDelay == 600

\* a click handler that restarts the fallback timer
handleCellClickRestart(row, col) ==
    /\ now + FallbackDelay <= MaxTime
    /\ Len(timers) < MaxPending
    /\ lastClickedCell' = <<row, col>>
    /\ isAnimating' = TRUE
    /\ timers' = <<now + FallbackDelay>>
    /\ UNCHANGED <<now, variant, grid, isBaseMode, hqs, powerUps, personalities, last>>

\* setLastClickedCell, setIsAnimating(true), onCellClick, setTimeout(..., 600)
handleCellClick(row, col) ==
    /\ now + FallbackDelay <= MaxTime
    /\ Len(timers) < MaxPending
    /\ lastClickedCell' = <<row, col>>
    /\ isAnimating' = TRUE
    /\ timers' = Append(timers, now + FallbackDelay)
    /\ UNCHANGED <<now, variant, grid, isBaseMode, hqs, powerUps, personalities, last>>

\* the callback of the oldest pending timer runs: setIsAnimating(false)
TimerFires ==
    /\ timers # << >>
    /\ Head(timers) <= now
    /\ isAnimating' = FALSE
    /\ timers' = Tail(timers)
    /\ UNCHANGED <<lastClickedCell, now, variant, grid, isBaseMode, hqs, powerUps,
                   personalities, last>>

\* time passes, up to the next due callback
Tick ==
    /\ now < MaxTime
    /\ timers # << >> => Head(timers) > now
    /\ now' = Min(Min(now + Step, MaxTime),
                  IF timers = << >> THEN MaxTime ELSE Head(timers))
    /\ UNCHANGED <<isAnimating, lastClickedCell, timers, variant, grid, isBaseMode,
                   hqs, powerUps, personalities, last>>

InitClick ==
    /\ variant = "rival"
    /\ grid = MkGrid(2, 2, {}, << >>)
    /\ isBaseMode = FALSE
    /\ hqs = Undefined
    /\ powerUps = Undefined
    /\ personalities = NoPersonalities
    /\ last = NoCall
    /\ IdleBoard

NextClick ==
    \/ \E x \in Coords(RowsOf(grid), ColsOf(grid)) : handleCellClick(x[1], x[2])
    \/ TimerFires
    \/ Tick

SpecClick == InitClick /\ [][NextClick]_vars

\* the event loop runs a due callback, and time passes
FairClick == SpecClick /\ WF_vars(TimerFires) /\ WF_vars(Tick)

\* C28: a click sets isAnimating and adds its own timer, due 600 ms later, to
\* the pending ones; a timer leaves the pending ones only by running, at its
\* due time, oldest first, and sets isAnimating to false, which happens less
\* than 600 ms after every later click whose timer is still pending; and
\* whenever a timer is pending, isAnimating is false at some later time.
C28_FallbackTimersAlwaysRun ==
    /\ [][ /\ Len(timers') > Len(timers) =>
                 /\ isAnimating'
                 /\ timers' = Append(timers, now + FallbackDelay)
           /\ Len(timers') = Len(timers) => timers' = timers
           /\ Len(timers') < Len(timers) =>
                 /\ timers' = Tail(timers)
                 /\ Head(timers) = now
                 /\ ~isAnimating'
                 /\ \A i \in 2..Len(timers) :
                       timers[i] > Head(timers)
                           => now' - (timers[i] - FallbackDelay) < FallbackDelay ]_vars
    /\ (timers # << >>) ~> ~isAnimating

\* C28 witness: the timer of an earlier click has set isAnimating to false
\* while the timer of a click made 200 ms or more ago is pending.
C28_Witness ==
    /\ ~isAnimating
    /\ timers # << >>
    /\ now - (Head(timers) - FallbackDelay) \in 1..(FallbackDelay - 1)

====
